---------------------------- MODULE Spec2Model ----------------------------
(***************************************************************************)
(* A model of the alias resolver (alurl) and of the signed transaction     *)
(* verification of atom-id.                                                *)
(*                                                                         *)
(* Text is modelled as a sequence of one-character strings, so that every  *)
(* offset computation of the source (find, rfind, slicing) is carried out  *)
(* character by character.  Offsets are 0-based as in the source; None of  *)
(* an Option<usize> is modelled as -1.                                     *)
(***************************************************************************)
EXTENDS Integers, Sequences, FiniteSets, TLC

(***************************************************************************)
(* Bounds of the model.                                                    *)
(***************************************************************************)
\* An input string is the concatenation of at most MaxPieces lexical pieces.
MaxPieces == 3

\* The number of resolve calls one thread makes, one after the other.
MaxCalls == 2

\* The longest anchor, in bytes, of an AtomId that is displayed and parsed.
MaxAnchorLen == 3

\* The longest of the short names validated, in characters.
MaxNameLen == 4

\* The longest string, in lexical pieces, given to a function applied alone.
MaxInputLen == 4

(***************************************************************************)
(* Characters.                                                             *)
(***************************************************************************)
\* ASCII letters of the model's alphabet (u8::is_ascii_alphabetic).
AsciiLetters == {"a", "b", "h", "f", "i"}

\* ASCII digits of the model's alphabet.
AsciiDigits == {"1"}

\* unicode_ident::is_xid_start restricted to the model's alphabet.
is_xid_start(c) == c \in AsciiLetters

\* unicode_ident::is_xid_continue restricted to the model's alphabet.
is_xid_continue(c) == c \in AsciiLetters \cup AsciiDigits \cup {"_"}

(***************************************************************************)
(* String helpers (Rust str methods, 0-based offsets).                     *)
(***************************************************************************)
None == -1

\* &s[from..to]
Slice(s, from, to) == SubSeq(s, from + 1, to)

\* &s[from..]
SliceFrom(s, from) == SubSeq(s, from + 1, Len(s))

Min(S) == CHOOSE x \in S : \A y \in S : x <= y

Max(S) == CHOOSE x \in S : \A y \in S : x >= y

\* str::find with a set of characters: offset of the first match, or None.
find(s, Cs) ==
    LET hits == {i \in 0..(Len(s) - 1) : s[i + 1] \in Cs}
    IN  IF hits = {} THEN None ELSE Min(hits)

\* str::rfind with one character: offset of the last match, or None.
rfind(s, c) ==
    LET hits == {i \in 0..(Len(s) - 1) : s[i + 1] = c}
    IN  IF hits = {} THEN None ELSE Max(hits)

\* str::find("://"): offset of the first occurrence, or None.
find_scheme_sep(s) ==
    LET hits == {i \in 0..(Len(s) - 3) :
                    s[i + 1] = ":" /\ s[i + 2] = "/" /\ s[i + 3] = "/"}
    IN  IF hits = {} THEN None ELSE Min(hits)

(***************************************************************************)
(* parse.rs                                                                *)
(***************************************************************************)
\* find_scheme_end: <<position after "://", TRUE>> for a valid scheme,
\* <<0, FALSE>> otherwise.
find_scheme_end(input) ==
    LET pos == find_scheme_sep(input)
    IN  IF pos = None THEN <<0, FALSE>>
        ELSE LET scheme == Slice(input, 0, pos)
                 valid  == /\ scheme # <<>>
                           /\ scheme[1] \in AsciiLetters
                           /\ \A i \in 1..Len(scheme) :
                                 scheme[i] \in AsciiLetters \cup AsciiDigits
                                               \cup {"+", "-", "."}
             IN  IF valid THEN <<pos + 3, TRUE>> ELSE <<0, FALSE>>

\* Option<usize>::map(|p| base + p).unwrap_or(default)
map_or(p, base, default) == IF p = None THEN default ELSE base + p

\* find_host_position, the authority boundary: the first '/' when a scheme is
\* present, the first '/' or ':' otherwise, else the end of the input.
authority_end(input, after_scheme, has_scheme) ==
    map_or(find(SliceFrom(input, after_scheme),
                IF has_scheme THEN {"/"} ELSE {"/", ":"}),
           after_scheme, Len(input))

\* host_in_authority taking the first '@' of the authority.
host_in_authority_first_at(input, after_scheme, auth_end) ==
    map_or(find(Slice(input, after_scheme, auth_end), {"@"}),
           after_scheme + 1, after_scheme)

\* find_host_position, the credentials: one past the last '@' of the
\* authority, or the authority start.
host_in_authority(input, after_scheme, auth_end) ==
    map_or(rfind(Slice(input, after_scheme, auth_end), "@"),
           after_scheme + 1, after_scheme)

host_after_scheme(input, se) ==
    host_in_authority(input, se[1], authority_end(input, se[1], se[2]))

\* find_host_position: offset of the host position of input.
find_host_position(input) == host_after_scheme(input, find_scheme_end(input))

\* validate_alias_name checking the first character only.
validate_alias_name_start_only(name) ==
    /\ name # <<>>
    /\ is_xid_start(name[1])

\* validate_alias_name: TRUE iff the name is a UAX #31 identifier.
validate_alias_name(name) ==
    /\ name # <<>>
    /\ is_xid_start(name[1])
    /\ \A i \in 2..Len(name) : is_xid_continue(name[i])

\* The three outcomes of classify, as records of one shape.  A suffix of
\* Option<(char, &str)> is <<>> for None and <<sep, rest>> for Some.
ClassRaw == [kind |-> "Raw", prefix |-> <<>>, alias_name |-> <<>>, suffix |-> <<>>]

ClassAliased(prefix, alias_name, suffix) ==
    [kind |-> "Aliased", prefix |-> prefix, alias_name |-> alias_name,
     suffix |-> suffix]

ClassInvalid(name) ==
    [kind |-> "InvalidAliasName", prefix |-> <<>>, alias_name |-> name,
     suffix |-> <<>>]

\* classify, the suffix: the separator and the opaque rest, if any.
suffix_at(input, after_name) ==
    IF after_name < Len(input)
    THEN <<input[after_name + 1], SliceFrom(input, after_name + 1)>>
    ELSE <<>>

\* classify_parts with a silent fallback: a name that fails validation is
\* taken as literal text.
classify_parts_fallback(prefix, alias_name, suffix) ==
    IF ~validate_alias_name(alias_name)
    THEN ClassRaw
    ELSE ClassAliased(prefix, alias_name, suffix)

\* classify, the validation of the alias name and the Aliased value.
classify_parts(prefix, alias_name, suffix) ==
    IF ~validate_alias_name(alias_name)
    THEN ClassInvalid(alias_name)
    ELSE ClassAliased(prefix, alias_name, suffix)

\* classify, the alias name: from name_start to the first '/' or ':' of the
\* remaining text, or to its end.
classify_name(input, host_pos, name_start, name_len) ==
    classify_parts(Slice(input, 0, host_pos),
                   Slice(input, name_start, name_start + name_len),
                   suffix_at(input, name_start + name_len))

\* classify_at seeking the sigil at the first '+' of the input instead of at
\* the host position.
classify_at_first_plus(input, host_pos) ==
    IF find(input, {"+"}) = None THEN ClassRaw
    ELSE classify_name(input, find(input, {"+"}), find(input, {"+"}) + 1,
                       map_or(find(SliceFrom(input, find(input, {"+"}) + 1),
                                   {"/", ":"}),
                              0, Len(input) - (find(input, {"+"}) + 1)))

\* classify, from the host position on.
classify_at(input, host_pos) ==
    IF ~(host_pos < Len(input) /\ input[host_pos + 1] = "+") THEN ClassRaw
    ELSE classify_name(input, host_pos, host_pos + 1,
                       map_or(find(SliceFrom(input, host_pos + 1), {"/", ":"}),
                              0, Len(input) - (host_pos + 1)))

\* classify: Raw, Aliased{prefix, alias_name, suffix} or Err(InvalidAliasName).
classify(input) ==
    IF input = <<>> THEN ClassRaw
    ELSE classify_at(input, find_host_position(input))

(***************************************************************************)
(* lib.rs                                                                  *)
(***************************************************************************)
\* reconstruct: prefix + resolved + separator + suffix.
reconstruct(prefix, resolved, suffix) ==
    IF suffix = <<>> THEN prefix \o resolved
    ELSE prefix \o resolved \o <<suffix[1]>> \o suffix[2]

\* AliasedUrl and ResolveError values, as records of one shape.
NoResult == [kind |-> "None", alias |-> <<>>, url |-> <<>>, name |-> <<>>,
             chain |-> <<>>]

Raw(url) == [NoResult EXCEPT !.kind = "Raw", !.url = url]

Expanded(alias, url) ==
    [NoResult EXCEPT !.kind = "Expanded", !.alias = alias, !.url = url]

AliasNotFound(name) == [NoResult EXCEPT !.kind = "AliasNotFound", !.name = name]

InvalidAliasName(name) ==
    [NoResult EXCEPT !.kind = "InvalidAliasName", !.name = name]

CycleDetected(chain) == [NoResult EXCEPT !.kind = "CycleDetected", !.chain = chain]

Range(f) == {f[i] : i \in DOMAIN f}

\* The frame of one resolve call: where it is (pc), its arguments and locals,
\* its result, and the number of expansions (lookup + reconstruct) it made.
NewCall(input) ==
    [pc |-> "resolve", input |-> input, cur |-> <<>>, original_alias |-> <<>>,
     chain |-> <<>>, steps |-> 0, result |-> NoResult]

Return(st, result) == [st EXCEPT !.pc = "done", !.result = result]

\* resolve_lookup without the recursion: the first reconstruction is returned
\* as the expanded url.
resolve_lookup_once(st, map, classified) ==
    IF classified.alias_name \notin DOMAIN map
    THEN Return(st, AliasNotFound(classified.alias_name))
    ELSE Return([st EXCEPT !.steps = st.steps + 1],
                Expanded(st.original_alias,
                         reconstruct(classified.prefix, map[classified.alias_name],
                                     classified.suffix)))

\* AliasMap::resolve, the Aliased arm after the chain is started: the lookup
\* and the reconstruction.
resolve_lookup(st, map, classified) ==
    IF classified.alias_name \notin DOMAIN map
    THEN Return(st, AliasNotFound(classified.alias_name))
    ELSE [st EXCEPT
            !.pc = "resolve_recursive",
            !.cur = reconstruct(classified.prefix, map[classified.alias_name],
                                classified.suffix),
            !.steps = st.steps + 1]

\* resolve_match extending the chain it finds instead of starting one.
resolve_match_keeping_chain(st, map, classified) ==
    IF classified.kind = "InvalidAliasName"
    THEN Return(st, InvalidAliasName(classified.alias_name))
    ELSE IF classified.kind = "Raw"
    THEN Return(st, Raw(st.input))
    ELSE resolve_lookup([st EXCEPT !.original_alias = classified.alias_name,
                                   !.chain = Append(st.chain, classified.alias_name)],
                        map, classified)

\* AliasMap::resolve, the match on the classification.
resolve_match(st, map, classified) ==
    IF classified.kind = "InvalidAliasName"
    THEN Return(st, InvalidAliasName(classified.alias_name))
    ELSE IF classified.kind = "Raw"
    THEN Return(st, Raw(st.input))
    ELSE resolve_lookup([st EXCEPT !.original_alias = classified.alias_name,
                                   !.chain = <<classified.alias_name>>],
                        map, classified)

\* The body of AliasMap::resolve up to its call of resolve_recursive.
resolve(st, map) == resolve_match(st, map, classify(st.input))

\* recursive_lookup reporting the outermost alias as the missing one.
recursive_lookup_outermost_name(st, map, classified) ==
    IF classified.alias_name \notin DOMAIN map
    THEN Return(st, AliasNotFound(st.original_alias))
    ELSE [st EXCEPT
            !.cur = reconstruct(classified.prefix, map[classified.alias_name],
                                classified.suffix),
            !.steps = st.steps + 1]

\* resolve_recursive, after the name is pushed on the chain: the lookup and
\* the reconstruction.
recursive_lookup(st, map, classified) ==
    IF classified.alias_name \notin DOMAIN map
    THEN Return(st, AliasNotFound(classified.alias_name))
    ELSE [st EXCEPT
            !.cur = reconstruct(classified.prefix, map[classified.alias_name],
                                classified.suffix),
            !.steps = st.steps + 1]

\* recursive_aliased reporting the chain as it was before the repeated name
\* is pushed.
recursive_aliased_short_chain(st, map, classified) ==
    IF classified.alias_name \in Range(st.chain)
    THEN Return(st, CycleDetected(st.chain))
    ELSE recursive_lookup(
             [st EXCEPT !.chain = Append(st.chain, classified.alias_name)],
             map, classified)

\* recursive_aliased without the cycle check.
recursive_aliased_unchecked(st, map, classified) ==
    recursive_lookup(
        [st EXCEPT !.chain = Append(st.chain, classified.alias_name)],
        map, classified)

\* recursive_aliased comparing the name with the outermost alias only.
recursive_aliased_first_only(st, map, classified) ==
    IF classified.alias_name = st.chain[1]
    THEN Return([st EXCEPT !.chain = Append(st.chain, classified.alias_name)],
                CycleDetected(Append(st.chain, classified.alias_name)))
    ELSE recursive_lookup(
             [st EXCEPT !.chain = Append(st.chain, classified.alias_name)],
             map, classified)

\* resolve_recursive, the cycle check of the Aliased arm.
recursive_aliased(st, map, classified) ==
    IF classified.alias_name \in Range(st.chain)
    THEN Return([st EXCEPT !.chain = Append(st.chain, classified.alias_name)],
                CycleDetected(Append(st.chain, classified.alias_name)))
    ELSE recursive_lookup(
             [st EXCEPT !.chain = Append(st.chain, classified.alias_name)],
             map, classified)

\* recursive_match naming the alias expanded last in the result.
recursive_match_last_alias(st, map, classified) ==
    IF classified.kind = "InvalidAliasName"
    THEN Return(st, InvalidAliasName(classified.alias_name))
    ELSE IF classified.kind = "Raw"
    THEN Return(st, Expanded(st.chain[Len(st.chain)], st.cur))
    ELSE recursive_aliased(st, map, classified)

\* resolve_recursive, the match on the classification.
recursive_match(st, map, classified) ==
    IF classified.kind = "InvalidAliasName"
    THEN Return(st, InvalidAliasName(classified.alias_name))
    ELSE IF classified.kind = "Raw"
    THEN Return(st, Expanded(st.original_alias, st.cur))
    ELSE recursive_aliased(st, map, classified)

\* One level of AliasMap::resolve_recursive, up to its recursive call.
resolve_recursive(st, map) == recursive_match(st, map, classify(st.cur))

\* One step of a call.
Step(st, map) ==
    IF st.pc = "resolve" THEN resolve(st, map)
    ELSE IF st.pc = "resolve_recursive" THEN resolve_recursive(st, map)
    ELSE st

\* The result of a whole call of AliasMap::resolve, run to its return.
RECURSIVE Run(_, _)
Run(st, map) == IF st.pc = "done" THEN st.result ELSE Run(Step(st, map), map)

Resolve(input, map) == Run(NewCall(input), map)

\* AliasMap::new and AliasMap::insert: the map with the pair put in, an
\* earlier value of the name replaced.
AliasMap_new == <<>>

insert(map, name, value) ==
    [n \in DOMAIN map \cup {name} |-> IF n = name THEN value ELSE map[n]]

\* The map after a sequence of inserts.
RECURSIVE InsertAll(_, _)
InsertAll(map, pairs) ==
    IF pairs = <<>> THEN map
    ELSE InsertAll(insert(map, Head(pairs)[1], Head(pairs)[2]), Tail(pairs))

\* resolve is entered again by a thread that has made a call before: the
\* arguments are new, the locals of the earlier call are what they were left.
Recall(st, input) ==
    [st EXCEPT !.pc = "resolve", !.input = input, !.steps = 0, !.result = NoResult]

\* One thread takes one step of its call, against the shared map, with the
\* chain of the other thread in place of its own.
thread_step_shared_chain(frames, t, map) ==
    [frames EXCEPT
        ![t] = Step([frames[t] EXCEPT
                        !.chain = frames[CHOOSE u \in DOMAIN frames : u # t].chain],
                    map)]

\* One thread takes one step of its call, against the shared map.
thread_step(frames, t, map) == [frames EXCEPT ![t] = Step(frames[t], map)]

(***************************************************************************)
(* atom-id: names.                                                         *)
(***************************************************************************)
\* NAME_MAX: the byte cap of a validated name.
NAME_MAX == 128

\* Characters of names beyond the ASCII ones above: "LIG_FI" stands for the
\* ligature U+FB01, which NFKC decomposes into "f" "i"; "SUP_1" for the
\* superscript one U+00B9, which is no identifier character (is_xid_start and
\* is_xid_continue are false of it) and which NFKC turns into "1".
NfkcChar(c) ==
    IF c = "LIG_FI" THEN <<"f", "i">>
    ELSE IF c = "SUP_1" THEN <<"1">>
    ELSE <<c>>

\* str::nfkc().collect(): the characters' normal forms, joined (the text is
\* halved at each step).
RECURSIVE nfkc(_)
nfkc(s) ==
    IF s = <<>> THEN <<>>
    ELSE IF Len(s) = 1 THEN NfkcChar(s[1])
    ELSE nfkc(SubSeq(s, 1, Len(s) \div 2)) \o nfkc(SubSeq(s, Len(s) \div 2 + 1, Len(s)))

\* The UTF-8 length of a character.
Utf8Len(c) == IF c = "LIG_FI" THEN 3 ELSE IF c = "SUP_1" THEN 2 ELSE 1

\* String::len(): the length in bytes (the text is halved at each step).
RECURSIVE ByteLen(_)
ByteLen(s) ==
    IF s = <<>> THEN 0
    ELSE IF Len(s) = 1 THEN Utf8Len(s[1])
    ELSE ByteLen(SubSeq(s, 1, Len(s) \div 2)) + ByteLen(SubSeq(s, Len(s) \div 2 + 1, Len(s)))

\* VerifiedName::is_valid_start (the default of the trait, kept by all types).
is_valid_start(T, c) == is_xid_start(c)

\* is_valid_char with a Tag that does not take '-'.
is_valid_char_tag_without_hyphen(T, c) ==
    \/ is_xid_continue(c)
    \/ T = "Label" /\ c = "-"
    \/ T = "Tag" /\ c \in {".", ":"}

\* VerifiedName::is_valid_char of Identifier, Label and Tag.
is_valid_char(T, c) ==
    \/ is_xid_continue(c)
    \/ T \in {"Label", "Tag"} /\ c = "-"
    \/ T = "Tag" /\ c \in {".", ":"}

\* Tag::extra_validation: TRUE iff the text holds "..".
HasDoubleDot(s) == \E i \in 1..(Len(s) - 1) : s[i] = "." /\ s[i + 1] = "."

\* The first character of s that fails is_valid_char, alone.
InvalidChars_first_only(T, s) ==
    IF SelectSeq(s, LAMBDA c : ~is_valid_char(T, c)) = <<>> THEN <<>>
    ELSE <<Head(SelectSeq(s, LAMBDA c : ~is_valid_char(T, c)))>>

\* The characters of s that fail is_valid_char, in order.
InvalidChars(T, s) == SelectSeq(s, LAMBDA c : ~is_valid_char(T, c))

\* Result<Self, Error> of validate, as records of one shape.
NameOk(T, text) == [ok |-> TRUE, type |-> T, text |-> text, err |-> "", chars |-> <<>>]

NameErr(err, chars) ==
    [ok |-> FALSE, type |-> "", text |-> <<>>, err |-> err, chars |-> chars]

\* validate on the normalized text, looking at the first character before
\* the length.
validate_normalized_start_first(T, normalized) ==
    IF normalized = <<>> THEN NameErr("Empty", <<>>)
    ELSE IF ~is_valid_start(T, normalized[1])
    THEN NameErr("InvalidStart", <<normalized[1]>>)
    ELSE IF ByteLen(normalized) > NAME_MAX THEN NameErr("TooLong", <<>>)
    ELSE IF InvalidChars(T, normalized) # <<>>
    THEN NameErr("InvalidCharacters", InvalidChars(T, normalized))
    ELSE IF T = "Tag" /\ HasDoubleDot(normalized)
    THEN NameErr("InvalidCharacters", <<".", ".">>)
    ELSE NameOk(T, normalized)

\* VerifiedName::validate on the normalized text.
validate_normalized(T, normalized) ==
    IF ByteLen(normalized) > NAME_MAX THEN NameErr("TooLong", <<>>)
    ELSE IF normalized = <<>> THEN NameErr("Empty", <<>>)
    ELSE IF ~is_valid_start(T, normalized[1])
    THEN NameErr("InvalidStart", <<normalized[1]>>)
    ELSE IF InvalidChars(T, normalized) # <<>>
    THEN NameErr("InvalidCharacters", InvalidChars(T, normalized))
    ELSE IF T = "Tag" /\ HasDoubleDot(normalized)
    THEN NameErr("InvalidCharacters", <<".", ".">>)
    ELSE NameOk(T, normalized)

\* validate that constructs the name of the text as it was given.
validate_keeping_raw(T, s) ==
    IF validate_normalized(T, nfkc(s)).ok THEN NameOk(T, s)
    ELSE validate_normalized(T, nfkc(s))

\* VerifiedName::validate: NFKC-normalize, then validate.
validate(T, s) == validate_normalized(T, nfkc(s))

\* The Deserialize of a name type (serde try_from = "String"): a JSON string
\* is validated, any other value is refused.
de_name(T, v) ==
    IF v.t = "str" THEN validate(T, v.s) ELSE NameErr("Deserialize", <<>>)

\* A value of a name type, as it is held by what was built, and none.
NameValue(T, text) == [some |-> TRUE, type |-> T, text |-> text]

NoName == [some |-> FALSE, type |-> "", text |-> <<>>]

\* The name a Result<Self, Error> of the type holds.
name_of(T, r) == IF r.ok THEN NameValue(T, r.text) ELSE NoName

(***************************************************************************)
(* atom-id: base64url without padding (Anchor::to_b64, serde_b64).        *)
(***************************************************************************)
\* The base64url alphabet; B64Alphabet[v + 1] is the character of sextet v.
B64Alphabet ==
    << "A", "B", "C", "D", "E", "F", "G", "H", "I", "J", "K", "L", "M",
       "N", "O", "P", "Q", "R", "S", "T", "U", "V", "W", "X", "Y", "Z",
       "a", "b", "c", "d", "e", "f", "g", "h", "i", "j", "k", "l", "m",
       "n", "o", "p", "q", "r", "s", "t", "u", "v", "w", "x", "y", "z",
       "0", "1", "2", "3", "4", "5", "6", "7", "8", "9", "-", "_" >>

B64Char(v) == B64Alphabet[v + 1]

\* Base64UrlUnpadded::encode_string
RECURSIVE B64Encode(_)
B64Encode(bytes) ==
    IF bytes = <<>> THEN <<>>
    ELSE IF Len(bytes) = 1
    THEN << B64Char(bytes[1] \div 4), B64Char((bytes[1] % 4) * 16) >>
    ELSE IF Len(bytes) = 2
    THEN << B64Char(bytes[1] \div 4),
            B64Char((bytes[1] % 4) * 16 + bytes[2] \div 16),
            B64Char((bytes[2] % 16) * 4) >>
    ELSE << B64Char(bytes[1] \div 4),
            B64Char((bytes[1] % 4) * 16 + bytes[2] \div 16),
            B64Char((bytes[2] % 16) * 4 + bytes[3] \div 64),
            B64Char(bytes[3] % 64) >>
         \o B64Encode(SubSeq(bytes, 4, Len(bytes)))

\* The sextet of a character of the alphabet.
B64Value(c) == (CHOOSE i \in 1..Len(B64Alphabet) : B64Alphabet[i] = c) - 1

\* The bytes of sextets, without any check.
RECURSIVE B64Bytes(_)
B64Bytes(v) ==
    IF Len(v) < 2 THEN <<>>
    ELSE IF Len(v) = 2 THEN << v[1] * 4 + v[2] \div 16 >>
    ELSE IF Len(v) = 3
    THEN << v[1] * 4 + v[2] \div 16, (v[2] % 16) * 16 + v[3] \div 4 >>
    ELSE << v[1] * 4 + v[2] \div 16, (v[2] % 16) * 16 + v[3] \div 4,
            (v[3] % 4) * 64 + v[4] >>
         \o B64Bytes(SubSeq(v, 5, Len(v)))

\* Result<Vec<u8>, _> of a decoding.
Decoded(bytes) == [ok |-> TRUE, bytes |-> bytes]

DecodeError == [ok |-> FALSE, bytes |-> <<>>]

\* Base64UrlUnpadded::decode_vec: every character is of the alphabet, the
\* length is no 1 modulo 4, and the text is the encoding of the bytes.
B64Decode(text) ==
    IF \E i \in 1..Len(text) : text[i] \notin Range(B64Alphabet) THEN DecodeError
    ELSE IF Len(text) % 4 = 1 THEN DecodeError
    ELSE IF B64Encode(B64Bytes([i \in 1..Len(text) |-> B64Value(text[i])])) # text
    THEN DecodeError
    ELSE Decoded(B64Bytes([i \in 1..Len(text) |-> B64Value(text[i])]))

(***************************************************************************)
(* atom-id: transaction payloads and their JSON form.                      *)
(***************************************************************************)
\* A variant of TYP_CLAIM that holds the publish tag.
TYP_CLAIM_publish_tag == <<"a", "t", "o", "m", "/", "p", "u", "b", "l", "i", "s", "h">>

\* TYP_CLAIM = "atom/claim"
TYP_CLAIM == <<"a", "t", "o", "m", "/", "c", "l", "a", "i", "m">>

\* TYP_PUBLISH = "atom/publish"
TYP_PUBLISH == <<"a", "t", "o", "m", "/", "p", "u", "b", "l", "i", "s", "h">>

\* coz_rs::Alg, the values used here.
Alg == {"ES256", "ES384", "Ed25519"}

\* Alg::name()
Alg_name(alg) ==
    IF alg = "ES256" THEN <<"E", "S", "2", "5", "6">>
    ELSE IF alg = "ES384" THEN <<"E", "S", "3", "8", "4">>
    ELSE <<"E", "d", "2", "5", "5", "1", "9">>

\* Option<Alg>::None
NoAlg == "NoAlg"

\* Alg::from_str(): the algorithm of a name, or NoAlg.
Alg_from_str(s) ==
    IF \E alg \in Alg : Alg_name(alg) = s
    THEN CHOOSE alg \in Alg : Alg_name(alg) = s
    ELSE NoAlg

\* AtomId::new
AtomId_new(anchor, label) == [anchor |-> anchor, label |-> label]

\* A variant of ClaimPayload::new that leaves typ empty.
ClaimPayload_new_untagged(alg, id, now, owner, tmb) ==
    [ alg |-> alg, anchor |-> id.anchor, label |-> id.label, now |-> now,
      owner |-> owner, tmb |-> tmb, typ |-> <<>> ]

\* AtomId_to_string with one ':' between the parts.
AtomId_to_string_single_colon(id) == B64Encode(id.anchor) \o <<":">> \o id.label

\* Display of AtomId: the anchor as unpadded base64url, "::", the label.
AtomId_to_string(id) == B64Encode(id.anchor) \o <<":", ":">> \o id.label

\* str::find("::"): offset of the first occurrence, or None.
find_double_colon(s) ==
    IF \E i \in 0..(Len(s) - 2) : s[i + 1] = ":" /\ s[i + 2] = ":"
    THEN Min({i \in 0..(Len(s) - 2) : s[i + 1] = ":" /\ s[i + 2] = ":"})
    ELSE None

\* Result<AtomId, Error> of from_str, as records of one shape.
ParsedId(id) == [ok |-> TRUE, id |-> id, err |-> ""]

ParseErr(err) == [ok |-> FALSE, id |-> AtomId_new(<<>>, <<>>), err |-> err]

\* from_str after the anchor is decoded: the label is validated.
from_str_label(anchor_bytes, label) ==
    IF ~label.ok THEN ParseErr("InvalidLabel")
    ELSE ParsedId(AtomId_new(anchor_bytes, label.text))

\* from_str after the split, checking the label before the anchor.
from_str_parts_label_first(anchor_str, label_str) ==
    IF ~validate("Label", label_str).ok THEN ParseErr("InvalidLabel")
    ELSE IF ~B64Decode(anchor_str).ok THEN ParseErr("InvalidAnchor")
    ELSE ParsedId(AtomId_new(B64Decode(anchor_str).bytes,
                             validate("Label", label_str).text))

\* from_str after the split: the anchor is decoded.
from_str_parts(anchor_str, label_str) ==
    IF ~B64Decode(anchor_str).ok THEN ParseErr("InvalidAnchor")
    ELSE from_str_label(B64Decode(anchor_str).bytes, validate("Label", label_str))

\* from_str, the split at the first "::".
from_str_split(s, at) ==
    IF at = None THEN ParseErr("InvalidFormat")
    ELSE from_str_parts(Slice(s, 0, at), SliceFrom(s, at + 2))

\* FromStr for AtomId
AtomId_from_str(s) == from_str_split(s, find_double_colon(s))

\* ClaimPayload::new
ClaimPayload_new(alg, id, now, owner, tmb) ==
    [ alg |-> alg, anchor |-> id.anchor, label |-> id.label, now |-> now,
      owner |-> owner, tmb |-> tmb, typ |-> TYP_CLAIM ]

\* PublishPayload::new that takes the anchor from the claim reference.
PublishPayload_new_claim_anchor(alg, id, claim, dig, now, path, src, tmb, version) ==
    [ alg |-> alg, anchor |-> claim, claim |-> claim, dig |-> dig,
      label |-> id.label, now |-> now, path |-> path, src |-> src,
      tmb |-> tmb, version |-> version, typ |-> TYP_PUBLISH ]

\* PublishPayload::new
PublishPayload_new(alg, id, claim, dig, now, path, src, tmb, version) ==
    [ alg |-> alg, anchor |-> id.anchor, claim |-> claim, dig |-> dig,
      label |-> id.label, now |-> now, path |-> path, src |-> src,
      tmb |-> tmb, version |-> version, typ |-> TYP_PUBLISH ]

\* A JSON string and a JSON number, as records of one shape.
JsonStr(s) == [t |-> "str", s |-> s, n |-> 0]

JsonNum(n) == [t |-> "num", s |-> <<>>, n |-> n]

\* serde_json::to_vec(&ClaimPayload): the members in the order of the fields;
\* alg by serde_alg, the byte fields as unpadded base64url.
to_vec_ClaimPayload(p) ==
    << <<"alg", JsonStr(Alg_name(p.alg))>>,
       <<"anchor", JsonStr(B64Encode(p.anchor))>>,
       <<"label", JsonStr(p.label)>>,
       <<"now", JsonNum(p.now)>>,
       <<"owner", JsonStr(B64Encode(p.owner))>>,
       <<"tmb", JsonStr(B64Encode(p.tmb))>>,
       <<"typ", JsonStr(p.typ)>> >>

\* serde_json::to_vec(&PublishPayload)
to_vec_PublishPayload(p) ==
    << <<"alg", JsonStr(Alg_name(p.alg))>>,
       <<"anchor", JsonStr(B64Encode(p.anchor))>>,
       <<"claim", JsonStr(B64Encode(p.claim))>>,
       <<"dig", JsonStr(B64Encode(p.dig))>>,
       <<"label", JsonStr(p.label)>>,
       <<"now", JsonNum(p.now)>>,
       <<"path", JsonStr(p.path)>>,
       <<"src", JsonStr(B64Encode(p.src))>>,
       <<"tmb", JsonStr(B64Encode(p.tmb))>>,
       <<"version", JsonStr(p.version)>>,
       <<"typ", JsonStr(p.typ)>> >>

\* The member of a JSON object under a key.
has_field(json, key) == \E i \in 1..Len(json) : json[i][1] = key

get_field(json, key) == json[CHOOSE i \in 1..Len(json) : json[i][1] = key][2]

\* serde_alg::deserialize succeeds.
de_alg(v) == v.t = "str" /\ Alg_from_str(v.s) # NoAlg

\* serde_b64::deserialize, and the Deserialize of Anchor, succeed.
de_b64(v) == v.t = "str" /\ B64Decode(v.s).ok

\* Label's Deserialize (try_from = "String") succeeds.
de_label(v) == v.t = "str" /\ validate("Label", v.s).ok

\* The Deserialize of a String and of a u64 succeed.
de_string(v) == v.t = "str"

de_u64(v) == v.t = "num"

\* The deserialization of a value as a field of the type succeeds.
de_value(type, v) ==
    CASE type = "Alg" -> de_alg(v)
      [] type = "b64" -> de_b64(v)
      [] type = "Label" -> de_label(v)
      [] type = "String" -> de_string(v)
      [] type = "u64" -> de_u64(v)

\* Every member of keys is present and deserializes as the type.
de_fields(json, keys, type) ==
    \A key \in keys : has_field(json, key) /\ de_value(type, get_field(json, key))

\* Result<Payload, serde_json::Error> of a deserialization.
NoPayload == [typ |-> <<>>]

Deserialized(payload) == [ok |-> TRUE, payload |-> payload]

DeserializeError == [ok |-> FALSE, payload |-> NoPayload]

\* The derived Deserialize of ClaimPayload: every field is required, members
\* under other keys are ignored.
from_slice_ClaimPayload(json) ==
    IF /\ de_fields(json, {"alg"}, "Alg")
       /\ de_fields(json, {"anchor", "owner", "tmb"}, "b64")
       /\ de_fields(json, {"label"}, "Label")
       /\ de_fields(json, {"now"}, "u64")
       /\ de_fields(json, {"typ"}, "String")
    THEN Deserialized(
           [ alg |-> Alg_from_str(get_field(json, "alg").s),
             anchor |-> B64Decode(get_field(json, "anchor").s).bytes,
             label |-> validate("Label", get_field(json, "label").s).text,
             now |-> get_field(json, "now").n,
             owner |-> B64Decode(get_field(json, "owner").s).bytes,
             tmb |-> B64Decode(get_field(json, "tmb").s).bytes,
             typ |-> get_field(json, "typ").s ])
    ELSE DeserializeError

\* The derived Deserialize of PublishPayload.
from_slice_PublishPayload(json) ==
    IF /\ de_fields(json, {"alg"}, "Alg")
       /\ de_fields(json, {"anchor", "claim", "dig", "src", "tmb"}, "b64")
       /\ de_fields(json, {"label"}, "Label")
       /\ de_fields(json, {"now"}, "u64")
       /\ de_fields(json, {"path", "version", "typ"}, "String")
    THEN Deserialized(
           [ alg |-> Alg_from_str(get_field(json, "alg").s),
             anchor |-> B64Decode(get_field(json, "anchor").s).bytes,
             claim |-> B64Decode(get_field(json, "claim").s).bytes,
             dig |-> B64Decode(get_field(json, "dig").s).bytes,
             label |-> validate("Label", get_field(json, "label").s).text,
             now |-> get_field(json, "now").n,
             path |-> get_field(json, "path").s,
             src |-> B64Decode(get_field(json, "src").s).bytes,
             tmb |-> B64Decode(get_field(json, "tmb").s).bytes,
             version |-> get_field(json, "version").s,
             typ |-> get_field(json, "typ").s ])
    ELSE DeserializeError

(***************************************************************************)
(* atom-id: verification of a signed payload.                              *)
(***************************************************************************)
\* coz_rs::sign_json: a signature is the triple it binds.  No other value
\* verifies (signatures are taken as unforgeable).
sign_json(pay_json, alg, prv) == [key |-> prv, alg |-> alg, over |-> pay_json]

\* The signature verifies over the bytes under the algorithm and the key.
verify_json(payload_bytes, signature, alg, public_key_bytes) ==
    /\ signature.key = public_key_bytes
    /\ signature.alg = alg
    /\ signature.over = payload_bytes

\* Result<Payload, VerifyError>, as records of one shape.
NoVerifyResult ==
    [kind |-> "None", payload |-> NoPayload, name |-> <<>>, expected |-> <<>>, found |-> <<>>]

Ok(payload) == [NoVerifyResult EXCEPT !.kind = "Ok", !.payload = payload]

UnsupportedAlgorithm(name) ==
    [NoVerifyResult EXCEPT !.kind = "UnsupportedAlgorithm", !.name = name]

InvalidSignature == [NoVerifyResult EXCEPT !.kind = "InvalidSignature"]

MalformedPayload == [NoVerifyResult EXCEPT !.kind = "MalformedPayload"]

WrongTyp(expected, found) ==
    [NoVerifyResult EXCEPT !.kind = "WrongTyp", !.expected = expected, !.found = found]

\* Steps 3 and 4 of the verification: the deserialized payload, then its typ
\* against the expected one.
check_typ(deserialized, expected) ==
    IF ~deserialized.ok THEN MalformedPayload
    ELSE IF deserialized.payload.typ # expected
    THEN WrongTyp(expected, deserialized.payload.typ)
    ELSE Ok(deserialized.payload)

\* A variant of verify_claim that inspects the body before the signature.
verify_claim_body_first(payload_bytes, signature, alg_name, public_key_bytes) ==
    IF Alg_from_str(alg_name) = NoAlg THEN UnsupportedAlgorithm(alg_name)
    ELSE IF check_typ(from_slice_ClaimPayload(payload_bytes), TYP_CLAIM).kind # "Ok"
    THEN check_typ(from_slice_ClaimPayload(payload_bytes), TYP_CLAIM)
    ELSE IF ~verify_json(payload_bytes, signature, Alg_from_str(alg_name), public_key_bytes)
    THEN InvalidSignature
    ELSE check_typ(from_slice_ClaimPayload(payload_bytes), TYP_CLAIM)

\* A variant of verify_publish that accepts whatever is validly signed.
verify_publish_signature_only(payload_bytes, signature, alg_name, public_key_bytes) ==
    IF Alg_from_str(alg_name) = NoAlg THEN UnsupportedAlgorithm(alg_name)
    ELSE IF ~verify_json(payload_bytes, signature, Alg_from_str(alg_name), public_key_bytes)
    THEN InvalidSignature
    ELSE Ok(from_slice_PublishPayload(payload_bytes).payload)

\* verify_claim: the algorithm of the name, the signature over the bytes, the
\* deserialization, the typ.
verify_claim(payload_bytes, signature, alg_name, public_key_bytes) ==
    IF Alg_from_str(alg_name) = NoAlg THEN UnsupportedAlgorithm(alg_name)
    ELSE IF ~verify_json(payload_bytes, signature, Alg_from_str(alg_name), public_key_bytes)
    THEN InvalidSignature
    ELSE check_typ(from_slice_ClaimPayload(payload_bytes), TYP_CLAIM)

\* verify_publish: the same, for PublishPayload and TYP_PUBLISH.
verify_publish(payload_bytes, signature, alg_name, public_key_bytes) ==
    IF Alg_from_str(alg_name) = NoAlg THEN UnsupportedAlgorithm(alg_name)
    ELSE IF ~verify_json(payload_bytes, signature, Alg_from_str(alg_name), public_key_bytes)
    THEN InvalidSignature
    ELSE check_typ(from_slice_PublishPayload(payload_bytes), TYP_PUBLISH)

(***************************************************************************)
(* atom-uri: RawAtomUri, its parsing, display and resolution.              *)
(***************************************************************************)
\* Option<T>: Some(v) and None, as records of one shape.
Some(v) == [some |-> TRUE, v |-> v]

OptNone == [some |-> FALSE, v |-> <<>>]

\* RawVersion::new
RawVersion_new(v) == v

\* RawAtomUri { source, label, version }
RawAtomUri(source, label, version) ==
    [source |-> source, label |-> label, version |-> version]

\* Result<RawAtomUri, UriError>, as records of one shape; name holds the
\* atom_id::Error an InvalidLabel wraps.
UriOk(uri) == [ok |-> TRUE, uri |-> uri, err |-> "", name |-> NameErr("", <<>>)]

UriErr(err, name) ==
    [ok |-> FALSE, uri |-> RawAtomUri(OptNone, <<>>, OptNone), err |-> err,
     name |-> name]

MissingLabel == UriErr("MissingLabel", NameErr("", <<>>))

EmptyVersion == UriErr("EmptyVersion", NameErr("", <<>>))

InvalidLabel(e) == UriErr("InvalidLabel", e)

\* str::rfind("::"): the offset of the last occurrence, or None.
rfind_double_colon(s) ==
    IF \E i \in 0..(Len(s) - 2) : s[i + 1] = ":" /\ s[i + 2] = ":"
    THEN Max({i \in 0..(Len(s) - 2) : s[i + 1] = ":" /\ s[i + 2] = ":"})
    ELSE None

\* from_str, the end: Label::try_from(label_str)?
uri_build(source, label, version) ==
    IF ~label.ok THEN InvalidLabel(label)
    ELSE UriOk(RawAtomUri(source, label.text, version))

\* from_str, after the version split: the empty label, then its validation.
uri_label(source, label_str, version) ==
    IF label_str = <<>> THEN MissingLabel
    ELSE uri_build(source, validate("Label", label_str), version)

\* uri_version with the label looked at before the version.
uri_version_label_first(source, atom_ref, at) ==
    IF at = None THEN uri_label(source, atom_ref, OptNone)
    ELSE IF Slice(atom_ref, 0, at) = <<>> THEN MissingLabel
    ELSE IF SliceFrom(atom_ref, at + 1) = <<>> THEN EmptyVersion
    ELSE uri_label(source, Slice(atom_ref, 0, at),
                   Some(RawVersion_new(SliceFrom(atom_ref, at + 1))))

\* from_str, the split of atom_ref at the rightmost '@' (at is its offset).
uri_version(source, atom_ref, at) ==
    IF at = None THEN uri_label(source, atom_ref, OptNone)
    ELSE IF SliceFrom(atom_ref, at + 1) = <<>> THEN EmptyVersion
    ELSE uri_label(source, Slice(atom_ref, 0, at),
                   Some(RawVersion_new(SliceFrom(atom_ref, at + 1))))

\* from_str, the split of s at "::" (at is its offset).
uri_source(s, at) ==
    IF at = None THEN uri_version(OptNone, s, rfind(s, "@"))
    ELSE uri_version(Some(Slice(s, 0, at)), SliceFrom(s, at + 2),
                     rfind(SliceFrom(s, at + 2), "@"))

\* from_str splitting at the leftmost "::".
RawAtomUri_from_str_leftmost(s) == uri_source(s, find_double_colon(s))

\* impl FromStr for RawAtomUri
RawAtomUri_from_str(s) == uri_source(s, rfind_double_colon(s))

\* Display of a RawAtomUri that writes the version after ':'.
RawAtomUri_to_string_colon_version(uri) ==
    (IF uri.source.some THEN uri.source.v \o <<":", ":">> ELSE <<>>)
        \o uri.label
        \o (IF uri.version.some THEN <<":">> \o uri.version.v ELSE <<>>)

\* impl Display for RawAtomUri
RawAtomUri_to_string(uri) ==
    (IF uri.source.some THEN uri.source.v \o <<":", ":">> ELSE <<>>)
        \o uri.label
        \o (IF uri.version.some THEN <<"@">> \o uri.version.v ELSE <<>>)

\* AtomUri { source, label, version }: the source is an Option<AliasedUrl>.
AtomUri(source, label, version) ==
    [source |-> source, label |-> label, version |-> version]

NoSource == [some |-> FALSE, v |-> NoResult]

\* Result<AtomUri, UriError> of RawAtomUri::resolve, as records of one shape;
\* alias holds the alurl::ResolveError an AliasError wraps.
ResolvedOk(uri) == [ok |-> TRUE, uri |-> uri, err |-> "", alias |-> NoResult]

AliasError(e) ==
    [ok |-> FALSE, uri |-> AtomUri(NoSource, <<>>, OptNone), err |-> "AliasError",
     alias |-> e]

\* resolve with the source resolved: map.resolve(src)? and the AtomUri.
uri_resolved(uri, r) ==
    IF r.kind \notin {"Raw", "Expanded"} THEN AliasError(r)
    ELSE ResolvedOk(AtomUri(Some(r), uri.label, uri.version))

\* RawAtomUri::resolve that leaves the version out.
RawAtomUri_resolve_without_version(uri, map) ==
    IF ~uri.source.some THEN ResolvedOk(AtomUri(NoSource, uri.label, OptNone))
    ELSE uri_resolved([uri EXCEPT !.version = OptNone], Resolve(uri.source.v, map))

\* RawAtomUri::resolve
RawAtomUri_resolve(uri, map) ==
    IF ~uri.source.some THEN ResolvedOk(AtomUri(NoSource, uri.label, uri.version))
    ELSE uri_resolved(uri, Resolve(uri.source.v, map))

(***************************************************************************)
(* atom-core: AtomDigest.                                                  *)
(***************************************************************************)
\* The hash of an algorithm and the length of its digests in bytes: SHA-256
\* for ES256, SHA-384 for ES384, SHA-512 for Ed25519.
HashOf(alg) ==
    IF alg = "ES256" THEN "SHA-256"
    ELSE IF alg = "ES384" THEN "SHA-384"
    ELSE "SHA-512"

DigestLen(alg) == IF alg = "ES256" THEN 32 ELSE IF alg = "ES384" THEN 48 ELSE 64

\* Option<Cad>: the digest of a message by a hash stands for its bytes.
Cad(hash, len, msg) == [some |-> TRUE, hash |-> hash, len |-> len, msg |-> msg]

NoCad == [some |-> FALSE, hash |-> "", len |-> 0, msg |-> <<>>]

\* The canonical form of a JSON object: its members under the keys of
\* order, in that order.
canonical(json, order) ==
    [i \in 1..Len(order) |-> <<order[i], get_field(json, order[i])>>]

\* coz_rs::canonical_hash_for_alg: None for an unknown algorithm name,
\* otherwise the digest of the canonical form by the hash of the algorithm.
canonical_hash_for_alg(json, alg_name, order) ==
    IF Alg_from_str(alg_name) = NoAlg THEN NoCad
    ELSE Cad(HashOf(Alg_from_str(alg_name)), DigestLen(Alg_from_str(alg_name)),
             canonical(json, order))

\* format!(r#"{{"anchor":"{}","label":"{}"}}"#, id.anchor().to_b64(), id.label())
digest_json(id) ==
    << <<"anchor", JsonStr(B64Encode(id.anchor))>>, <<"label", JsonStr(id.label)>> >>

\* Option<AtomDigest>
AtomDigest(alg, cad) == [some |-> TRUE, alg |-> alg, cad |-> cad]

NoDigest == [some |-> FALSE, alg |-> NoAlg, cad |-> NoCad]

\* compute, after the hash: `?` and Some(Self { alg, cad }).
digest_of(alg, cad) == IF ~cad.some THEN NoDigest ELSE AtomDigest(alg, cad)

\* AtomDigest::compute that hashes with ES256 whatever the algorithm.
AtomDigest_compute_one_hash(id, alg) ==
    digest_of(alg, canonical_hash_for_alg(digest_json(id), Alg_name("ES256"),
                                          <<"anchor", "label">>))

\* AtomDigest::compute
AtomDigest_compute(id, alg) ==
    digest_of(alg, canonical_hash_for_alg(digest_json(id), Alg_name(alg),
                                          <<"anchor", "label">>))

(***************************************************************************)
(* Inputs.                                                                 *)
(***************************************************************************)
\* Lexical pieces an input is built from: alias tokens, a host letter, a
\* digit, the separators, the credential mark and the scheme separator.
Pieces ==
    { <<"+", "a">>, <<"+", "b">>, <<"+">>, <<"a">>, <<"1">>,
      <<"/">>, <<":">>, <<"@">>, <<":", "/", "/">> }

RECURSIVE Flatten(_)
Flatten(ps) == IF ps = <<>> THEN <<>> ELSE Head(ps) \o Flatten(Tail(ps))

Inputs == {Flatten(ps) : ps \in UNION {[1..n -> Pieces] : n \in 0..MaxPieces}}

\* Alias names and the values a map may give them: a plain host, a
\* reference to another alias (bare or with a path), and a reference to an
\* invalid alias name.
AliasNames == {<<"a">>, <<"b">>}

AliasValues ==
    {<<"h">>, <<"+", "a">>, <<"+", "b">>, <<"+", "b", "/", "h">>, <<"+", "1">>}

AliasMaps == UNION {[D -> AliasValues] : D \in SUBSET AliasNames}

\* Values without "://" that end where a scheme separator begins, beside a
\* plain host and a reference to another alias; and the maps of them.
SchemeValues ==
    {<<"h">>, <<"h", ":">>, <<"h", ":", "/">>, <<"+", "b">>}

SchemeMaps == UNION {[D -> SchemeValues] : D \in SUBSET AliasNames}

\* Signed transactions: the values of the payloads' fields.
Keys == {"k1", "k2"}

Anchors == {<<1, 2, 3, 4>>, <<255>>, <<>>}

Labels == {validate("Label", s).text : s \in {<<"a", "-", "b">>, <<"LIG_FI", "1">>}}

\* The names a caller passes as alg_name: the known ones and "UNSUPPORTED".
AlgNames ==
    {Alg_name(alg) : alg \in Alg}
        \cup {<<"U", "N", "S", "U", "P", "P", "O", "R", "T", "E", "D">>}

\* The payload of a kind, built by its constructor.
BuiltPayload(kind, alg, id) ==
    IF kind = "claim"
    THEN ClaimPayload_new(alg, id, 1000, <<99>>, <<10, 20, 30>>)
    ELSE PublishPayload_new(alg, id, <<5, 6>>, <<7, 8>>, 2000, <<"s", "r", "c">>,
                            <<9, 10>>, <<10, 20, 30>>, <<"1", ".", "0">>)

to_vec(kind, payload) ==
    IF kind = "claim" THEN to_vec_ClaimPayload(payload)
    ELSE to_vec_PublishPayload(payload)

\* json_val[key] = value, and the removal of a member.
set_field(json, key, value) ==
    [i \in 1..Len(json) |-> IF json[i][1] = key THEN <<key, value>> ELSE json[i]]

remove_field(json, key) == SelectSeq(json, LAMBDA member : member[1] # key)

\* What is done to the serialized payload before it is signed or sent.
Tampers ==
    { "none", "typ_swapped", "typ_other", "typ_missing", "label_invalid",
      "label_ligature", "anchor_invalid", "now_string" }

Tamper(json, how, kind) ==
    CASE how = "none" -> json
      [] how = "typ_swapped" ->
            set_field(json, "typ", JsonStr(IF kind = "claim" THEN TYP_PUBLISH ELSE TYP_CLAIM))
      [] how = "typ_other" -> set_field(json, "typ", JsonStr(<<"a", "t", "o", "m">>))
      [] how = "typ_missing" -> remove_field(json, "typ")
      [] how = "label_invalid" -> set_field(json, "label", JsonStr(<<"1">>))
      [] how = "label_ligature" -> set_field(json, "label", JsonStr(<<"LIG_FI">>))
      [] how = "anchor_invalid" -> set_field(json, "anchor", JsonStr(<<"A">>))
      [] how = "now_string" -> set_field(json, "now", JsonStr(<<"1">>))

\* The signature sent with the bytes: made over them, made over the bytes
\* as they were before the tampering, or one no key has made.
SigKinds == {"genuine", "stale", "garbage"}

GarbageSignature == [key |-> "none", alg |-> NoAlg, over |-> <<>>]

Signature(sig, before, after, alg, prv) ==
    CASE sig = "genuine" -> sign_json(after, alg, prv)
      [] sig = "stale" -> sign_json(before, alg, prv)
      [] sig = "garbage" -> GarbageSignature

\* A built payload, serialized, tampered with and signed, and the arguments
\* of the verification to come.
SignedTx(kind, built, how, sig, prv, alg_name, public_key_bytes) ==
    [ pc |-> "signed", kind |-> kind, built |-> built,
      payload_bytes |-> Tamper(to_vec(kind, built), how, kind),
      signature |-> Signature(sig, to_vec(kind, built),
                              Tamper(to_vec(kind, built), how, kind), built.alg, prv),
      alg_name |-> alg_name, public_key_bytes |-> public_key_bytes,
      verifier |-> "", result |-> NoVerifyResult ]

NoTx == [pc |-> "idle"]

\* The strings classify is applied to alone: single characters and the
\* scheme separator, so that schemes with '+', several '@', ports, and names
\* with a digit, '-', '.' or a superscript one occur.
ParsePieces ==
    { <<"+">>, <<"a">>, <<"1">>, <<"-">>, <<".">>, <<"SUP_1">>, <<"/">>, <<":">>,
      <<"@">>, <<":", "/", "/">> }

ParseInputs ==
    {Flatten(ps) : ps \in UNION {[1..n -> ParsePieces] : n \in 0..MaxInputLen}}

\* The application of one function to its arguments: before the call and
\* after its return.
Apply(name, args) == [pc |-> "call", name |-> name, args |-> args, ret |-> <<>>]

Returned(ev, ret) == [ev EXCEPT !.pc = "return", !.ret = ret]

NoEval == [pc |-> "idle"]

\* The AtomIds displayed: anchors of every length up to MaxAnchorLen, the
\* empty one included, and validated labels.
ByteValues == {0, 1, 255}

IdAnchors == UNION {[1..n -> ByteValues] : n \in 0..MaxAnchorLen}

IdLabels ==
    {validate("Label", s).text :
        s \in {<<"a">>, <<"a", "-", "1">>, <<"a", "_", "-">>, <<"LIG_FI", "1">>}}

\* The strings parsed as AtomIds: base64url characters (some of them also
\* label characters), a character of neither, and the separators.
IdPieces ==
    { <<"A">>, <<"Q">>, <<"B">>, <<"!">>, <<":">>, <<":", ":">>, <<"a">>, <<"1">>,
      <<"-">> }

IdInputs ==
    {Flatten(ps) : ps \in UNION {[1..n -> IdPieces] : n \in 0..MaxInputLen}}

\* The name types, and the names validated: every short text over letters,
\* a digit, the extra characters of Label and Tag, a character of no type and
\* the ligature, and texts about the length cap.
NameTypes == {"Identifier", "Label", "Tag"}

NameChars == {"a", "1", "-", ".", ":", "!", "LIG_FI"}

Repeat(c, n) == [i \in 1..n |-> c]

ShortNames == UNION {[1..n -> NameChars] : n \in 0..MaxNameLen}

LongNames ==
    { Repeat("a", NAME_MAX),
      Repeat("a", NAME_MAX + 1),
      <<"1">> \o Repeat("a", NAME_MAX - 1),
      <<"1">> \o Repeat("a", NAME_MAX),
      <<"a">> \o Repeat("!", NAME_MAX),
      <<"a", ".", ".">> \o Repeat("a", NAME_MAX - 2),
      Repeat("LIG_FI", 43),
      Repeat("LIG_FI", NAME_MAX \div 2),
      Repeat("LIG_FI", NAME_MAX \div 2 + 1),
      Repeat("a", NAME_MAX - 1) \o <<"SUP_1">>,
      <<"a", "-", "!", ":", "!", ".", "_", "-", "a", "b">>,
      <<"a", "_", "SUP_1", "-", "b">>,
      <<"SUP_1", "a">> }

NameInputs == ShortNames \cup LongNames

\* A validation that has not been made.
Pending == NameErr("", <<>>)

\* The atom references parsed: every short text over label characters, the
\* separators and the ligature, and longer references with several "::" and
\* '@'.
UriPieces ==
    { <<"a">>, <<"1">>, <<"-">>, <<"@">>, <<":">>, <<":", ":">>, <<"LIG_FI">>,
      <<"/">> }

UriExamples ==
    { <<"a", ":", ":", "b", ":", ":", "a">>,
      <<"a", "@", "h", ":", "a", ":", ":", "a", "@", "1">>,
      <<"a", "@", "1", ":", ":", "a", ":", ":", "b", "@", "1">>,
      <<"a", ":", ":", "a", "@", "1", "@", "1">>,
      <<"a", "@", "1", ":", ":", "a", ":", ":", "b">> }

UriInputs ==
    {Flatten(ps) : ps \in UNION {[1..n -> UriPieces] : n \in 0..MaxInputLen}}
        \cup UriExamples

\* The atom references resolved: a label, with or without a version, alone
\* or after a source that is an input of the alias resolver; and the maps
\* they are resolved on: empty, one alias, a chain of two, and a cycle.
UriTails == {<<"a">>, <<"LIG_FI", "@", "1">>}

UriRefs ==
    UriTails \cup {src \o <<":", ":">> \o tail : src \in Inputs, tail \in UriTails}

UriMaps ==
    { AliasMap_new,
      InsertAll(AliasMap_new, << <<(<<"a">>), (<<"h">>)>> >>),
      InsertAll(AliasMap_new, << <<(<<"a">>), (<<"+", "b">>)>>, <<(<<"b">>), (<<"h">>)>> >>),
      InsertAll(AliasMap_new, << <<(<<"a">>), (<<"+", "b">>)>>, <<(<<"b">>), (<<"+", "a">>)>> >>) }

\* Threads that call resolve on one shared map, the inputs they pass, and
\* the sequences of inserts that build the map.
Threads == {"t1", "t2"}

CallInputs == {<<"+", "a">>, <<"+", "b">>, <<"a">>, <<"+", "b", "/", "+", "a">>}

InsertPairs == AliasNames \X {<<"h">>, <<"+", "a">>, <<"+", "b">>}

InsertSeqs == UNION {[1..n -> InsertPairs] : n \in 0..3}

NoThreads == [frame |-> <<>>, made |-> <<>>]

NoCall == [NewCall(<<>>) EXCEPT !.pc = "idle"]

(***************************************************************************)
(* The state machine: one AliasMap and one resolve call on it; one signed  *)
(* transaction and one verification of it.                                 *)
(***************************************************************************)
VARIABLES aliases, call, tx, eval, threads

vars == <<aliases, call, tx, eval, threads>>

Init ==
    /\ aliases \in AliasMaps
    /\ \E input \in Inputs : call = NewCall(input)
    /\ tx = NoTx
    /\ eval = NoEval
    /\ threads = NoThreads

\* AliasMap::resolve is entered: the input is classified and, when aliased,
\* looked up and reconstructed.
ResolveCall ==
    /\ call.pc = "resolve"
    /\ call' = resolve(call, aliases)
    /\ UNCHANGED <<aliases, tx, eval, threads>>

\* One level of resolve_recursive runs on the reconstructed candidate.
ResolveRecursive ==
    /\ call.pc = "resolve_recursive"
    /\ call' = resolve_recursive(call, aliases)
    /\ UNCHANGED <<aliases, tx, eval, threads>>

Next == ResolveCall \/ ResolveRecursive

Spec == Init /\ [][Next]_vars

\* resolve is called on a map whose values may end in ':' or ":/".
InitScheme ==
    /\ aliases \in SchemeMaps
    /\ \E input \in Inputs : call = NewCall(input)
    /\ tx = NoTx
    /\ eval = NoEval
    /\ threads = NoThreads

SpecScheme == InitScheme /\ [][Next]_vars

\* A transaction is built, serialized and signed; nothing is resolved.
InitVerify ==
    /\ aliases = <<>>
    /\ call = NoCall
    /\ eval = NoEval
    /\ threads = NoThreads
    /\ \E kind \in {"claim", "publish"}, alg \in Alg, anchor \in Anchors,
          label \in Labels, how \in Tampers, sig \in SigKinds, prv \in Keys,
          alg_name \in AlgNames, public_key_bytes \in Keys :
            tx = SignedTx(kind, BuiltPayload(kind, alg, AtomId_new(anchor, label)),
                          how, sig, prv, alg_name, public_key_bytes)

\* verify_claim is called on the signed bytes.
VerifyClaim ==
    /\ tx.pc = "signed"
    /\ tx' = [tx EXCEPT !.pc = "verified", !.verifier = "verify_claim",
                         !.result = verify_claim(tx.payload_bytes, tx.signature,
                                                 tx.alg_name, tx.public_key_bytes)]
    /\ UNCHANGED <<aliases, call, eval, threads>>

\* verify_publish is called on the signed bytes.
VerifyPublish ==
    /\ tx.pc = "signed"
    /\ tx' = [tx EXCEPT !.pc = "verified", !.verifier = "verify_publish",
                         !.result = verify_publish(tx.payload_bytes, tx.signature,
                                                   tx.alg_name, tx.public_key_bytes)]
    /\ UNCHANGED <<aliases, call, eval, threads>>

NextVerify == VerifyClaim \/ VerifyPublish

SpecVerify == InitVerify /\ [][NextVerify]_vars

\* parse::classify is applied to one string.
InitClassify ==
    /\ aliases = <<>>
    /\ call = NoCall
    /\ tx = NoTx
    /\ threads = NoThreads
    /\ \E input \in ParseInputs : eval = Apply("classify", <<input>>)

Classify ==
    /\ eval.pc = "call"
    /\ eval.name = "classify"
    /\ eval' = Returned(eval, classify(eval.args[1]))
    /\ UNCHANGED <<aliases, call, tx, threads>>

NextClassify == Classify

SpecClassify == InitClassify /\ [][NextClassify]_vars

\* A map is built by inserts and then shared, unchanged, by threads that each
\* call resolve on it, MaxCalls times one call after the other.
InitCalls ==
    /\ \E pairs \in InsertSeqs : aliases = InsertAll(AliasMap_new, pairs)
    /\ call = NoCall
    /\ tx = NoTx
    /\ eval = NoEval
    /\ \E inputs \in [Threads -> CallInputs] :
          threads = [frame |-> [t \in Threads |-> NewCall(inputs[t])],
                     made |-> [t \in Threads |-> 1]]

ThreadResolve(t) ==
    /\ threads.frame[t].pc = "resolve"
    /\ threads' = [threads EXCEPT !.frame = thread_step(threads.frame, t, aliases)]
    /\ UNCHANGED <<aliases, call, tx, eval>>

ThreadResolveRecursive(t) ==
    /\ threads.frame[t].pc = "resolve_recursive"
    /\ threads' = [threads EXCEPT !.frame = thread_step(threads.frame, t, aliases)]
    /\ UNCHANGED <<aliases, call, tx, eval>>

\* A thread whose call has returned calls resolve again.
ThreadCall(t) ==
    /\ threads.frame[t].pc = "done"
    /\ threads.made[t] < MaxCalls
    /\ \E input \in CallInputs :
          threads' = [threads EXCEPT !.frame[t] = Recall(threads.frame[t], input),
                                     !.made[t] = threads.made[t] + 1]
    /\ UNCHANGED <<aliases, call, tx, eval>>

NextCalls ==
    \E t \in Threads : ThreadResolve(t) \/ ThreadResolveRecursive(t) \/ ThreadCall(t)

SpecCalls == InitCalls /\ [][NextCalls]_vars

\* One text is validated as each of the name types, in any order.
InitName ==
    /\ aliases = <<>>
    /\ call = NoCall
    /\ tx = NoTx
    /\ threads = NoThreads
    /\ \E s \in NameInputs :
          eval = [ pc |-> "call", name |-> "validate", args |-> <<s>>,
                   ret |-> [T \in NameTypes |-> Pending] ]

\* T::try_from(s), that is T::validate(s)
Validate(T) ==
    /\ eval.pc = "call"
    /\ eval.name = "validate"
    /\ eval.ret[T] = Pending
    /\ eval' = [eval EXCEPT !.ret[T] = validate(T, eval.args[1])]
    /\ UNCHANGED <<aliases, call, tx, threads>>

NextName == \E T \in NameTypes : Validate(T)

SpecName == InitName /\ [][NextName]_vars

\* An atom reference is parsed, the RawAtomUri displayed, and the text
\* displayed parsed again.
InitUri ==
    /\ aliases = <<>>
    /\ call = NoCall
    /\ tx = NoTx
    /\ threads = NoThreads
    /\ \E s \in UriInputs : eval = Apply("uri_from_str", <<s>>)

\* s.parse::<RawAtomUri>()
ParseUri ==
    /\ eval.pc = "call"
    /\ eval.name = "uri_from_str"
    /\ eval' = Returned(eval, RawAtomUri_from_str(eval.args[1]))
    /\ UNCHANGED <<aliases, call, tx, threads>>

\* uri.to_string() of the RawAtomUri parsed; the text parsed and the
\* RawAtomUri are kept as arguments.
DisplayUri ==
    /\ eval.pc = "return"
    /\ eval.name = "uri_from_str"
    /\ eval.ret.ok
    /\ eval' = [ pc |-> "return", name |-> "uri_to_string",
                 args |-> <<eval.args[1], eval.ret.uri>>,
                 ret |-> RawAtomUri_to_string(eval.ret.uri) ]
    /\ UNCHANGED <<aliases, call, tx, threads>>

\* uri.to_string().parse::<RawAtomUri>()
ReparseUri ==
    /\ eval.pc = "return"
    /\ eval.name = "uri_to_string"
    /\ eval' = [eval EXCEPT !.name = "uri_reparse",
                            !.ret = RawAtomUri_from_str(eval.ret)]
    /\ UNCHANGED <<aliases, call, tx, threads>>

NextUri == ParseUri \/ DisplayUri \/ ReparseUri

SpecUri == InitUri /\ [][NextUri]_vars

\* An atom reference is parsed and the RawAtomUri resolved on a map.
InitUriResolve ==
    /\ aliases \in UriMaps
    /\ call = NoCall
    /\ tx = NoTx
    /\ threads = NoThreads
    /\ \E s \in UriRefs : eval = Apply("uri_from_str", <<s>>)

\* uri.resolve(&map) of the RawAtomUri parsed.
ResolveUri ==
    /\ eval.pc = "return"
    /\ eval.name = "uri_from_str"
    /\ eval.ret.ok
    /\ eval' = [ pc |-> "return", name |-> "uri_resolve",
                 args |-> <<eval.ret.uri>>,
                 ret |-> RawAtomUri_resolve(eval.ret.uri, aliases) ]
    /\ UNCHANGED <<aliases, call, tx, threads>>

NextUriResolve == ParseUri \/ ResolveUri

SpecUriResolve == InitUriResolve /\ [][NextUriResolve]_vars

\* A text is given to one of the entry points that build a name: the
\* conversions and the Deserialize of the three types, the parsing of an
\* AtomId and of an atom reference with the text as label, and the
\* Deserialize of a payload with the text as label.  The name that results,
\* if any, is then validated again.
InitSealed ==
    /\ aliases = <<>>
    /\ call = NoCall
    /\ tx = NoTx
    /\ threads = NoThreads
    /\ \E s \in NameInputs :
          eval = [ pc |-> "call", name |-> "name", args |-> <<s>>, ret |-> NoName,
                   re |-> Pending ]

\* T::from_str(s), T::try_from(s)
TryFrom(T) ==
    /\ eval.pc = "call"
    /\ eval.name = "name"
    /\ eval' = [eval EXCEPT !.pc = "held", !.name = "try_from",
                            !.ret = name_of(T, validate(T, eval.args[1]))]
    /\ UNCHANGED <<aliases, call, tx, threads>>

\* serde_json::from_str::<T>() of the text as a JSON string, and of a number.
DeserializeName(T) ==
    /\ eval.pc = "call"
    /\ eval.name = "name"
    /\ \E v \in {JsonStr(eval.args[1]), JsonNum(Len(eval.args[1]))} :
          eval' = [eval EXCEPT !.pc = "held", !.name = "deserialize",
                                !.ret = name_of(T, de_name(T, v))]
    /\ UNCHANGED <<aliases, call, tx, threads>>

\* "AQ::<s>".parse::<AtomId>(): the label of the AtomId.
ParseAtomIdLabel ==
    /\ eval.pc = "call"
    /\ eval.name = "name"
    /\ eval' = [eval EXCEPT
                   !.pc = "held", !.name = "atom_id",
                   !.ret = IF AtomId_from_str(<<"A", "Q", ":", ":">> \o eval.args[1]).ok
                           THEN NameValue("Label",
                                    AtomId_from_str(<<"A", "Q", ":", ":">> \o eval.args[1]).id.label)
                           ELSE NoName]
    /\ UNCHANGED <<aliases, call, tx, threads>>

\* "<s>@1".parse::<RawAtomUri>(): the label of the RawAtomUri.
ParseUriLabel ==
    /\ eval.pc = "call"
    /\ eval.name = "name"
    /\ eval' = [eval EXCEPT
                   !.pc = "held", !.name = "atom_uri",
                   !.ret = IF RawAtomUri_from_str(eval.args[1] \o <<"@", "1">>).ok
                           THEN NameValue("Label",
                                    RawAtomUri_from_str(eval.args[1] \o <<"@", "1">>).uri.label)
                           ELSE NoName]
    /\ UNCHANGED <<aliases, call, tx, threads>>

\* serde_json::from_slice::<ClaimPayload>() of a claim whose label member is
\* the text: the label of the payload.
DeserializeClaimLabel ==
    /\ eval.pc = "call"
    /\ eval.name = "name"
    /\ \E id \in {AtomId_new(<<1>>, <<"a">>)} :
          eval' = [eval EXCEPT
                     !.pc = "held", !.name = "claim",
                     !.ret = IF from_slice_ClaimPayload(
                                    set_field(to_vec("claim", BuiltPayload("claim", "ES256", id)),
                                              "label", JsonStr(eval.args[1]))).ok
                             THEN NameValue("Label",
                                      from_slice_ClaimPayload(
                                          set_field(to_vec("claim", BuiltPayload("claim", "ES256", id)),
                                                    "label", JsonStr(eval.args[1]))).payload.label)
                             ELSE NoName]
    /\ UNCHANGED <<aliases, call, tx, threads>>

\* T::try_from(&*name) of the name held.
Revalidate ==
    /\ eval.pc = "held"
    /\ eval.ret.some
    /\ eval' = [eval EXCEPT !.pc = "revalidated",
                            !.re = validate(eval.ret.type, eval.ret.text)]
    /\ UNCHANGED <<aliases, call, tx, threads>>

NextSealed ==
    \/ \E T \in NameTypes : TryFrom(T) \/ DeserializeName(T)
    \/ ParseAtomIdLabel
    \/ ParseUriLabel
    \/ DeserializeClaimLabel
    \/ Revalidate

SpecSealed == InitSealed /\ [][NextSealed]_vars

\* The digest of an AtomId is computed, and then that of the AtomId parsed
\* from its text, with the same or another algorithm.
InitDigest ==
    /\ aliases = <<>>
    /\ call = NoCall
    /\ tx = NoTx
    /\ threads = NoThreads
    /\ \E anchor \in IdAnchors, label \in IdLabels, alg \in Alg :
          eval = [ pc |-> "call", name |-> "compute",
                   args |-> <<AtomId_new(anchor, label), alg, alg>>,
                   ret |-> [first |-> NoDigest, second |-> NoDigest] ]

\* AtomDigest::compute(&id, alg)
Compute ==
    /\ eval.pc = "call"
    /\ eval.name = "compute"
    /\ eval' = [eval EXCEPT !.pc = "return",
                            !.ret.first = AtomDigest_compute(eval.args[1], eval.args[2])]
    /\ UNCHANGED <<aliases, call, tx, threads>>

\* AtomDigest::compute(&id.to_string().parse().unwrap(), alg2)
ComputeAgain ==
    /\ eval.pc = "return"
    /\ eval.name = "compute"
    /\ \E alg2 \in Alg :
          eval' = [eval EXCEPT
                     !.name = "compute_again",
                     !.args[3] = alg2,
                     !.ret.second =
                         AtomDigest_compute(
                             AtomId_from_str(AtomId_to_string(eval.args[1])).id, alg2)]
    /\ UNCHANGED <<aliases, call, tx, threads>>

NextDigest == Compute \/ ComputeAgain

SpecDigest == InitDigest /\ [][NextDigest]_vars

\* A claim and a publish are built from one AtomId, each with any
\* algorithm, timestamp, owner and version.
InitPayloads ==
    /\ aliases = <<>>
    /\ call = NoCall
    /\ tx = NoTx
    /\ threads = NoThreads
    /\ \E anchor \in IdAnchors, label \in IdLabels :
          eval = [ pc |-> "call", name |-> "payloads",
                   args |-> <<AtomId_new(anchor, label)>>,
                   ret |-> [built |-> {}, claim |-> <<>>, publish |-> <<>>] ]

\* ClaimPayload::new(alg, id.clone(), now, owner, tmb)
BuildClaim ==
    /\ eval.pc = "call"
    /\ eval.name = "payloads"
    /\ "claim" \notin eval.ret.built
    /\ \E alg \in Alg, now \in {1000, 2000}, owner \in {<<99>>, <<>>} :
          eval' = [eval EXCEPT
                     !.ret.built = eval.ret.built \cup {"claim"},
                     !.ret.claim = ClaimPayload_new(alg, eval.args[1], now, owner,
                                                    <<10, 20, 30>>)]
    /\ UNCHANGED <<aliases, call, tx, threads>>

\* PublishPayload::new(alg, id.clone(), claim, dig, now, path, src, tmb, version)
BuildPublish ==
    /\ eval.pc = "call"
    /\ eval.name = "payloads"
    /\ "publish" \notin eval.ret.built
    /\ \E alg \in Alg, version \in {<<"1", ".", "0">>, <<"2">>} :
          eval' = [eval EXCEPT
                     !.ret.built = eval.ret.built \cup {"publish"},
                     !.ret.publish = PublishPayload_new(alg, eval.args[1], <<5, 6>>,
                                                        <<7, 8>>, 3000, <<"s", "r", "c">>,
                                                        <<9, 10>>, <<10, 20, 30>>, version)]
    /\ UNCHANGED <<aliases, call, tx, threads>>

NextPayloads == BuildClaim \/ BuildPublish

SpecPayloads == InitPayloads /\ [][NextPayloads]_vars

\* An AtomId is displayed and the text parsed again, or a string is parsed.
InitAtomId ==
    /\ aliases = <<>>
    /\ call = NoCall
    /\ tx = NoTx
    /\ threads = NoThreads
    /\ \/ \E anchor \in IdAnchors, label \in IdLabels :
             eval = Apply("to_string", <<AtomId_new(anchor, label)>>)
       \/ \E s \in IdInputs : eval = Apply("from_str", <<s>>)

\* id.to_string()
Display ==
    /\ eval.pc = "call"
    /\ eval.name = "to_string"
    /\ eval' = Returned(eval, AtomId_to_string(eval.args[1]))
    /\ UNCHANGED <<aliases, call, tx, threads>>

\* s.parse() of the text displayed: the result is kept with the AtomId that
\* was displayed.
ParseDisplayed ==
    /\ eval.pc = "return"
    /\ eval.name = "to_string"
    /\ eval' = [eval EXCEPT !.name = "parse", !.ret = AtomId_from_str(eval.ret)]
    /\ UNCHANGED <<aliases, call, tx, threads>>

\* AtomId::from_str(s)
Parse ==
    /\ eval.pc = "call"
    /\ eval.name = "from_str"
    /\ eval' = Returned(eval, AtomId_from_str(eval.args[1]))
    /\ UNCHANGED <<aliases, call, tx, threads>>

NextAtomId == Display \/ ParseDisplayed \/ Parse

SpecAtomId == InitAtomId /\ [][NextAtomId]_vars

(***************************************************************************)
(* Vocabulary of the properties.                                           *)
(***************************************************************************)
\* The text has '+' at its host position.
PlusAtHost(s) ==
    LET h == find_host_position(s) IN h < Len(s) /\ s[h + 1] = "+"

\* The text after the '+' at the host position, up to the next '/' or ':'
\* or the end.
NameAt(s) ==
    LET rest == SliceFrom(s, find_host_position(s) + 1)
        seps == {i \in 1..Len(rest) : rest[i] \in {"/", ":"}}
    IN  IF seps = {} THEN rest ELSE SubSeq(rest, 1, Min(seps) - 1)

\* The string the next step of the call classifies.
Classified == IF call.pc = "resolve" THEN call.input ELSE call.cur

ErrorKinds == {"InvalidAliasName", "AliasNotFound", "CycleDetected"}

IsPrefixOf(p, s) == Len(p) <= Len(s) /\ SubSeq(s, 1, Len(p)) = p

IsSuffixOf(t, s) ==
    Len(t) <= Len(s) /\ SubSeq(s, Len(s) - Len(t) + 1, Len(s)) = t

Distinct(q) == \A i, j \in DOMAIN q : i # j => q[i] # q[j]

\* The alias maps of the two cycle examples.
CycleMapAB == (<<"a">> :> <<"+", "b">>) @@ (<<"b">> :> <<"+", "a">>)

CycleMapSelf == (<<"a">> :> <<"+", "a">>)

\* The verification of the transaction has returned, from the function named.
VerifiedBy(verifier) == tx.pc = "verified" /\ tx.verifier = verifier

\* The name passed as alg_name is the name of an algorithm.
AlgKnown == \E alg \in Alg : Alg_name(alg) = tx.alg_name

\* The signature sent verifies over the bytes sent, under the algorithm and
\* the key passed.
SigValid ==
    /\ AlgKnown
    /\ verify_json(tx.payload_bytes, tx.signature, Alg_from_str(tx.alg_name),
                   tx.public_key_bytes)

\* The bytes sent are the serialization of the payload built, and the
\* signature sent was made over them by the key passed, with the payload's
\* algorithm.
GenuinelySigned ==
    /\ tx.payload_bytes = to_vec(tx.kind, tx.built)
    /\ tx.signature = sign_json(tx.payload_bytes, tx.built.alg, tx.public_key_bytes)

\* The texts "atom/claim" and "atom/publish".
AtomClaimText == <<"a", "t", "o", "m", "/", "c", "l", "a", "i", "m">>

AtomPublishText == <<"a", "t", "o", "m", "/", "p", "u", "b", "l", "i", "s", "h">>

(***************************************************************************)
(* C1                                                                      *)
(***************************************************************************)
\* C1: when resolve returns Expanded{url}, the url is the input's prefix,
\* then the replacement of the host token, then the input's separator and
\* suffix verbatim: nothing of the input's suffix was looked up or expanded.
C1_SuffixVerbatim ==
    call.result.kind = "Expanded" =>
        LET c    == classify(call.input)
            tail == IF c.suffix = <<>> THEN <<>>
                    ELSE <<c.suffix[1]>> \o c.suffix[2]
            url  == call.result.url
        IN  /\ Len(url) >= Len(c.prefix) + Len(tail)
            /\ IsPrefixOf(c.prefix, url)
            /\ IsSuffixOf(tail, url)

(***************************************************************************)
(* C2                                                                      *)
(***************************************************************************)
\* C2: no silent fallback.  A step that classifies a string with '+' at its
\* host position ends in an expansion or in an error: InvalidAliasName with
\* the name when the name is no identifier, AliasNotFound with the name when
\* it is an identifier that is no key of the map.  Raw is returned only by
\* the first step, for an input without '+' at its host position, and never
\* after an expansion.
C2_Step ==
    /\ (call'.result.kind = "Raw" =>
            /\ call.pc = "resolve"
            /\ ~PlusAtHost(call.input)
            /\ call'.steps = 0)
    /\ (call.pc # "done" /\ PlusAtHost(Classified) =>
            \/ /\ call'.pc = "resolve_recursive"
               /\ call'.steps = call.steps + 1
               /\ call'.result = NoResult
            \/ /\ call'.pc = "done"
               /\ call'.result.kind \in ErrorKinds)
    /\ (call.pc # "done" /\ PlusAtHost(Classified)
            /\ ~validate_alias_name(NameAt(Classified)) =>
            call'.result = InvalidAliasName(NameAt(Classified)))
    /\ (call.pc # "done" /\ PlusAtHost(Classified)
            /\ validate_alias_name(NameAt(Classified))
            /\ NameAt(Classified) \notin DOMAIN aliases =>
            call'.result = AliasNotFound(NameAt(Classified)))

C2_NoSilentFallback == [][C2_Step]_vars

\* An invalid alias name met after an expansion was reported as an error.
C2_Witness ==
    /\ call.pc = "done"
    /\ call.steps > 0
    /\ call.result.kind = "InvalidAliasName"

(***************************************************************************)
(* C3                                                                      *)
(***************************************************************************)
\* C3: the chain holds the alias names in visiting order; when the name at
\* the host position of a reconstructed candidate is already in the chain,
\* the call fails with CycleDetected whose chain is the visited names
\* followed by the repeated name.  {a: "+b", b: "+a"} and "+a" give
\* ["a","b","a"]; a self-referencing alias gives the name twice.
C3_Step ==
    /\ (call.pc # "done" /\ call'.pc = "resolve_recursive" =>
            call'.chain = Append(call.chain, NameAt(Classified)))
    /\ (call.pc = "resolve_recursive" /\ PlusAtHost(call.cur)
            /\ NameAt(call.cur) \in Range(call.chain) =>
            call'.result = CycleDetected(Append(call.chain, NameAt(call.cur))))
    /\ (call'.result.kind = "CycleDetected" /\ call.pc # "done" =>
            /\ call.pc = "resolve_recursive"
            /\ Distinct(call.chain)
            /\ call'.result.chain = Append(call.chain, NameAt(call.cur))
            /\ NameAt(call.cur) \in Range(call.chain))
    /\ (call'.pc = "done" /\ call.input = <<"+", "a">> /\ aliases = CycleMapAB =>
            call'.result = CycleDetected(<<(<<"a">>), (<<"b">>), (<<"a">>)>>))
    /\ (call'.pc = "done" /\ call.input = <<"+", "a">> /\ aliases = CycleMapSelf =>
            call'.result = CycleDetected(<<(<<"a">>), (<<"a">>)>>))

C3_CycleChain == [][C3_Step]_vars

\* The two-alias cycle was entered through "+a" and detected.
C3_Witness ==
    /\ call.input = <<"+", "a">>
    /\ aliases = CycleMapAB
    /\ call.result.kind = "CycleDetected"
    /\ Len(call.result.chain) = 3

(***************************************************************************)
(* C4                                                                      *)
(***************************************************************************)
\* C4: every call returns (Raw, Expanded or an error) after at most
\* (number of aliases in the map + 1) expansions: a call that has not
\* returned is at a step it can take (ResolveCall or ResolveRecursive), every
\* step either returns or is one more expansion, and the number of
\* expansions never exceeds the bound.
C4_Step ==
    call.pc # "done" =>
        \/ /\ call'.pc = "done"
           /\ call'.result.kind \in {"Raw", "Expanded"} \cup ErrorKinds
           /\ call'.steps = call.steps
        \/ /\ call'.pc # "done"
           /\ call'.steps = call.steps + 1

C4_Terminates ==
    /\ [](call.steps <= Cardinality(DOMAIN aliases) + 1)
    /\ [](call.pc \in {"resolve", "resolve_recursive", "done"})
    /\ [][C4_Step]_vars

\* A call on a cyclic map returned after as many expansions as the map has
\* aliases.
C4_Witness ==
    /\ call.pc = "done"
    /\ call.result.kind = "CycleDetected"
    /\ call.steps = Cardinality(DOMAIN aliases)
    /\ call.steps = 2

(***************************************************************************)
(* C5                                                                      *)
(***************************************************************************)
\* C5: verify_claim returns the error of the first failing check, in the
\* order algorithm name, signature, decoding, typ: an unknown algorithm name
\* gives UnsupportedAlgorithm(name) whatever the signature and the payload
\* are; with a known name, a signature that does not verify gives
\* InvalidSignature whatever the body is; only a verified payload is decoded,
\* and only a decoded one has its typ compared.
C5_CheckOrder ==
    VerifiedBy("verify_claim") =>
        LET d == from_slice_ClaimPayload(tx.payload_bytes) IN
        /\ ~AlgKnown => tx.result = UnsupportedAlgorithm(tx.alg_name)
        /\ AlgKnown /\ ~SigValid => tx.result = InvalidSignature
        /\ SigValid /\ ~d.ok => tx.result = MalformedPayload
        /\ SigValid /\ d.ok => tx.result.kind \in {"WrongTyp", "Ok"}

\* verify_claim has returned InvalidSignature for bytes whose signature
\* does not verify and whose body is undecodable or of another typ.
C5_Witness ==
    /\ VerifiedBy("verify_claim")
    /\ AlgKnown /\ ~SigValid
    /\ \/ ~from_slice_ClaimPayload(tx.payload_bytes).ok
       \/ from_slice_ClaimPayload(tx.payload_bytes).payload.typ # AtomClaimText
    /\ tx.result = InvalidSignature

(***************************************************************************)
(* C6                                                                      *)
(***************************************************************************)
\* C6: a valid signature is not sufficient.  When the signature verifies
\* and the bytes decode as a ClaimPayload whose typ is not "atom/claim",
\* verify_claim returns WrongTyp{expected: "atom/claim", found: that typ};
\* every payload verify_claim returns as Ok has typ "atom/claim".
C6_TypRequired ==
    VerifiedBy("verify_claim") =>
        LET d == from_slice_ClaimPayload(tx.payload_bytes) IN
        /\ SigValid /\ d.ok /\ d.payload.typ # AtomClaimText =>
               tx.result = WrongTyp(AtomClaimText, d.payload.typ)
        /\ tx.result.kind = "Ok" => tx.result.payload.typ = AtomClaimText

\* verify_claim has returned WrongTyp for a decodable payload of typ
\* "atom/publish" whose signature, made over those very bytes, verifies.
C6_Witness ==
    /\ VerifiedBy("verify_claim")
    /\ SigValid
    /\ from_slice_ClaimPayload(tx.payload_bytes).ok
    /\ tx.result = WrongTyp(AtomClaimText, AtomPublishText)

(***************************************************************************)
(* C7                                                                      *)
(***************************************************************************)
\* C7: no replay across transaction types.  A payload built by
\* ClaimPayload::new and genuinely signed is never Ok for verify_publish, and
\* one built by PublishPayload::new and genuinely signed is never Ok for
\* verify_claim, whatever algorithm name is passed.
C7_NoCrossTypeReplay ==
    tx.pc = "verified" /\ GenuinelySigned =>
        /\ tx.kind = "claim" /\ tx.verifier = "verify_publish" => tx.result.kind # "Ok"
        /\ tx.kind = "publish" /\ tx.verifier = "verify_claim" => tx.result.kind # "Ok"

\* verify_publish has rejected a genuinely signed claim whose signature
\* verifies, with an error that is not about the signature.
C7_Witness ==
    /\ VerifiedBy("verify_publish")
    /\ tx.kind = "claim"
    /\ GenuinelySigned /\ SigValid
    /\ tx.result.kind \in {"MalformedPayload", "WrongTyp"}

(***************************************************************************)
(* C8                                                                      *)
(***************************************************************************)
\* C8: round trip.  A payload built by ClaimPayload::new, serialized and
\* signed, is returned as Ok by verify_claim called with those bytes, that
\* signature, the name of the payload's algorithm and the signer's key, and
\* the payload returned equals the one built: same anchor, same label, typ
\* "atom/claim".  The same for PublishPayload::new, verify_publish and
\* "atom/publish".
C8_Roundtrip ==
    /\ VerifiedBy("verify_claim") /\ tx.kind = "claim" /\ GenuinelySigned
           /\ tx.alg_name = Alg_name(tx.built.alg) =>
               /\ tx.result = Ok(tx.built)
               /\ tx.result.payload.typ = AtomClaimText
    /\ VerifiedBy("verify_publish") /\ tx.kind = "publish" /\ GenuinelySigned
           /\ tx.alg_name = Alg_name(tx.built.alg) =>
               /\ tx.result = Ok(tx.built)
               /\ tx.result.payload.typ = AtomPublishText

\* verify_claim has returned Ok for a genuinely signed claim whose label
\* was normalized when it was built and whose anchor is not empty.
C8_Witness ==
    /\ VerifiedBy("verify_claim") /\ tx.kind = "claim" /\ GenuinelySigned
    /\ tx.alg_name = Alg_name(tx.built.alg)
    /\ tx.built.label = <<"f", "i", "1">>
    /\ tx.built.anchor = <<1, 2, 3, 4>>
    /\ tx.result.kind = "Ok"
    /\ tx.result.payload.anchor = <<1, 2, 3, 4>>
    /\ tx.result.payload.label = <<"f", "i", "1">>

(***************************************************************************)
(* C9                                                                      *)
(***************************************************************************)
\* C9: an input without '+' at its host position, the empty input included,
\* is returned as Raw(input), character for character, whatever the map.
C9_RawUnchanged ==
    call.pc = "done" /\ ~PlusAtHost(call.input) => call.result = Raw(call.input)

\* A non-empty input that holds a '+' elsewhere than at its host position
\* was returned as Raw by a map that has aliases.
C9_Witness ==
    /\ call.pc = "done"
    /\ ~PlusAtHost(call.input)
    /\ "+" \in Range(call.input)
    /\ aliases # <<>>
    /\ call.result.kind = "Raw"

(***************************************************************************)
(* C10                                                                     *)
(***************************************************************************)
\* C10: the url of an Expanded result has no '+' at its host position, and
\* resolving it again with the same map returns Raw(url).
C10_ExpandedIsFinal ==
    call.result.kind = "Expanded" =>
        /\ ~PlusAtHost(call.result.url)
        /\ Resolve(call.result.url, aliases) = Raw(call.result.url)

\* A two-level expansion returned Expanded.
C10_Witness ==
    /\ call.result.kind = "Expanded"
    /\ call.steps = 2

(***************************************************************************)
(* C11                                                                     *)
(***************************************************************************)
\* C11: whenever resolve returns Expanded, its alias field is the name found
\* at the host position of the original input, however many expansions
\* followed; it is the first name of the chain, not a later one.
C11_OriginalAlias ==
    call.result.kind = "Expanded" =>
        /\ PlusAtHost(call.input)
        /\ call.result.alias = NameAt(call.input)
        /\ call.result.alias = call.chain[1]

\* resolve has returned Expanded after two expansions through two different
\* aliases, and the alias field is the first of them.
C11_Witness ==
    /\ call.result.kind = "Expanded"
    /\ call.input = <<"+">> \o call.chain[1]
    /\ Len(call.chain) = 2
    /\ call.chain[1] # call.chain[2]
    /\ call.result.alias = NameAt(call.input)
    /\ call.result.alias # call.chain[2]

(***************************************************************************)
(* C12                                                                     *)
(***************************************************************************)
\* The host position of a string, stated on the string: the positions (of
\* the ':') of "://", whether the text before the first is a scheme, where
\* the authority starts and ends, and one past its last '@'.
SchemeSeps(s) ==
    {p \in 1..(Len(s) - 2) : s[p] = ":" /\ s[p + 1] = "/" /\ s[p + 2] = "/"}

HasValidScheme(s) ==
    /\ SchemeSeps(s) # {}
    /\ Min(SchemeSeps(s)) > 1
    /\ s[1] \in AsciiLetters
    /\ \A i \in 1..(Min(SchemeSeps(s)) - 1) :
          s[i] \in AsciiLetters \cup AsciiDigits \cup {"+", "-", "."}

AuthorityStart(s) == IF HasValidScheme(s) THEN Min(SchemeSeps(s)) + 2 ELSE 0

AuthorityEnd(s) ==
    LET ends == {i \in (AuthorityStart(s) + 1)..Len(s) :
                    s[i] \in (IF HasValidScheme(s) THEN {"/"} ELSE {"/", ":"})}
    IN  IF ends = {} THEN Len(s) ELSE Min(ends) - 1

HostPosition(s) ==
    LET ats == {i \in (AuthorityStart(s) + 1)..AuthorityEnd(s) : s[i] = "@"}
    IN  IF ats = {} THEN AuthorityStart(s) ELSE Max(ats)

SigilAtHost(s) == HostPosition(s) < Len(s) /\ s[HostPosition(s) + 1] = "+"

\* C12: classify takes '+' for the alias sigil only at the host position:
\* after the "://" of a valid scheme, or at offset 0 without one, and one past
\* the last '@' of the authority, which ends at the first '/' with a scheme
\* and at the first '/' or ':' without.  A string is Raw exactly when the
\* character there is not '+', wherever else it holds a '+'; otherwise the
\* prefix of the classification is the text before the host position.
C12_HostPositionOnly ==
    eval.pc = "return" /\ eval.name = "classify" =>
        /\ eval.ret.kind = "Raw" <=> ~SigilAtHost(eval.args[1])
        /\ eval.ret.kind = "Aliased" =>
               eval.ret.prefix = SubSeq(eval.args[1], 1, HostPosition(eval.args[1]))

\* classify has found the sigil after a valid scheme whose name holds a
\* '+', which it has not taken for the sigil.
C12_Witness ==
    /\ eval.pc = "return" /\ eval.name = "classify"
    /\ HasValidScheme(eval.args[1])
    /\ "+" \in Range(SubSeq(eval.args[1], 1, HostPosition(eval.args[1])))
    /\ eval.ret.kind # "Raw"

(***************************************************************************)
(* C13                                                                     *)
(***************************************************************************)
\* The text after the sigil at the host position, up to the next '/' or ':'
\* or the end of the string.
NameAfterSigil(s) ==
    LET ends == {i \in (HostPosition(s) + 2)..Len(s) : s[i] \in {"/", ":"}}
    IN  SubSeq(s, HostPosition(s) + 2, IF ends = {} THEN Len(s) ELSE Min(ends) - 1)

\* C13 as stated: the alias name is accepted exactly when Identifier's
\* validation accepts it; any other name is reported as InvalidAliasName
\* carrying the name.
C13_SameAsIdentifier ==
    eval.pc = "return" /\ eval.name = "classify" /\ SigilAtHost(eval.args[1]) =>
        /\ eval.ret.kind = "Aliased"
               <=> validate("Identifier", NameAfterSigil(eval.args[1])).ok
        /\ eval.ret.kind # "Aliased" =>
               eval.ret = ClassInvalid(NameAfterSigil(eval.args[1]))

\* C13 (amended): the alias name is accepted exactly when it is not empty,
\* its first character satisfies the start predicate and every later one the
\* continue predicate, on the text as written (not normalized, not capped in
\* length); the accepted name is that text, and any other name (empty,
\* digit first, holding '-' or '.') is reported as InvalidAliasName carrying
\* the name.
C13_AliasNameValidated ==
    eval.pc = "return" /\ eval.name = "classify" /\ SigilAtHost(eval.args[1]) =>
        LET name == NameAfterSigil(eval.args[1]) IN
        /\ eval.ret.kind = "Aliased"
               <=> /\ name # <<>>
                   /\ name[1] \in AsciiLetters
                   /\ \A i \in 2..Len(name) :
                         name[i] \in AsciiLetters \cup AsciiDigits \cup {"_"}
        /\ eval.ret.kind = "Aliased" => eval.ret.alias_name = name
        /\ eval.ret.kind # "Aliased" => eval.ret = ClassInvalid(name)

\* classify has rejected the name "a" + superscript one, which Identifier's
\* validation accepts (as "a1").
C13_Witness ==
    /\ eval.pc = "return" /\ eval.name = "classify"
    /\ eval.args[1] = <<"+", "a", "SUP_1">>
    /\ eval.ret = ClassInvalid(<<"a", "SUP_1">>)
    /\ validate("Identifier", <<"a", "SUP_1">>).ok

(***************************************************************************)
(* C14                                                                     *)
(***************************************************************************)
\* C14: resolve is deterministic.  Whatever sequence of inserts built the
\* map, any two calls that have returned for the same input have returned
\* the same result (variant, url, alias, error, chain), whether a call is
\* the first of its thread or follows an earlier call with another input.
C14_Deterministic ==
    \A t, u \in DOMAIN threads.frame :
        /\ threads.frame[t].pc = "done"
        /\ threads.frame[u].pc = "done"
        /\ threads.frame[t].input = threads.frame[u].input
        => threads.frame[t].result = threads.frame[u].result

\* A first call and a call that followed an earlier call of its thread, which
\* went through two aliases, have returned the same Expanded result for the
\* same input.
C14_Witness ==
    /\ threads.made = [t \in Threads |-> IF t = "t1" THEN 1 ELSE 2]
    /\ \A t \in Threads : threads.frame[t].pc = "done"
    /\ threads.frame["t1"].input = threads.frame["t2"].input
    /\ threads.frame["t1"].result.kind = "Expanded"
    /\ threads.frame["t2"].result = threads.frame["t1"].result
    /\ Len(threads.frame["t2"].chain) = 2

(***************************************************************************)
(* C15                                                                     *)
(***************************************************************************)
\* C15: calls of resolve that run concurrently on one shared map that is not
\* changed meanwhile each return, under every interleaving of their steps,
\* the result the call returns when it runs alone.
C15_ConcurrentCalls ==
    \A t \in DOMAIN threads.frame :
        threads.frame[t].pc = "done" =>
            threads.frame[t].result = Resolve(threads.frame[t].input, aliases)

\* A call has returned CycleDetected with its own chain while the call of
\* the other thread, on another input, was in the middle of its expansion.
C15_Witness ==
    /\ threads.frame["t1"].pc = "done"
    /\ threads.frame["t1"].result.kind = "CycleDetected"
    /\ threads.frame["t2"].pc = "resolve_recursive"
    /\ threads.frame["t2"].input # threads.frame["t1"].input
    /\ threads.frame["t2"].chain # <<>>
    /\ threads.frame["t1"].result = Resolve(threads.frame["t1"].input, aliases)

(***************************************************************************)
(* C16                                                                     *)
(***************************************************************************)
\* C16: for every anchor, the empty one included, and every valid label,
\* parsing the text AtomId::new(anchor, label) is displayed as gives back an
\* AtomId equal to it.
C16_TextRoundTrip ==
    eval.pc = "return" /\ eval.name = "parse" =>
        /\ eval.ret.ok
        /\ eval.ret.id = eval.args[1]
        /\ eval.ret.id.anchor = eval.args[1].anchor
        /\ eval.ret.id.label = eval.args[1].label

\* The text of an AtomId with the empty anchor, and that of one with an
\* anchor of two bytes and a label holding '-', has been parsed back.
C16_Witness ==
    /\ eval.pc = "return" /\ eval.name = "parse"
    /\ eval.ret.ok
    /\ \/ eval.args[1].anchor = <<>> /\ eval.ret.id.anchor = <<>>
       \/ /\ eval.args[1] = AtomId_new(<<255, 1>>, <<"a", "-", "1">>)
          /\ eval.ret.id = eval.args[1]

(***************************************************************************)
(* C17                                                                     *)
(***************************************************************************)
\* The offsets at which "::" stands in s.
DoubleColons(s) == {i \in 0..(Len(s) - 2) : s[i + 1] = ":" /\ s[i + 2] = ":"}

\* The text before the first "::" of s, and the text after it.
AnchorPart(s) == Slice(s, 0, Min(DoubleColons(s)))

LabelPart(s) == SliceFrom(s, Min(DoubleColons(s)) + 2)

\* C17: parsing an AtomId from text fails with InvalidFormat when the text
\* holds no "::"; otherwise with InvalidAnchor when the part before the first
\* "::" is not valid base64url, even when the label part is invalid too;
\* otherwise with InvalidLabel when the label part fails Label validation.  A
\* parse that succeeds carries the decoded anchor and the validated label.
C17_ParseErrorPrecedence ==
    eval.pc = "return" /\ eval.name = "from_str" =>
        LET s == eval.args[1]
            r == eval.ret
        IN  IF DoubleColons(s) = {} THEN ~r.ok /\ r.err = "InvalidFormat"
            ELSE IF ~B64Decode(AnchorPart(s)).ok
            THEN ~r.ok /\ r.err = "InvalidAnchor"
            ELSE IF ~validate("Label", LabelPart(s)).ok
            THEN ~r.ok /\ r.err = "InvalidLabel"
            ELSE /\ r.ok
                 /\ r.id.anchor = B64Decode(AnchorPart(s)).bytes
                 /\ r.id.label = validate("Label", LabelPart(s)).text

\* A text whose anchor part is not base64url and whose label part is not a
\* Label has been refused with InvalidAnchor.
C17_Witness ==
    /\ eval.pc = "return" /\ eval.name = "from_str"
    /\ DoubleColons(eval.args[1]) # {}
    /\ ~B64Decode(AnchorPart(eval.args[1])).ok
    /\ ~validate("Label", LabelPart(eval.args[1])).ok
    /\ eval.ret.err = "InvalidAnchor"

(***************************************************************************)
(* C18                                                                     *)
(***************************************************************************)
\* The types as which the text of the state has been validated.
Validated == {T \in NameTypes : eval.ret[T] # Pending}

\* C18: validation reports the first failure in a fixed order on the
\* NFKC-normalized text: more than 128 bytes is TooLong (128 bytes pass, and
\* the raw length does not count); else the empty text is Empty; else a first
\* character that is no start character is InvalidStart of that character;
\* else characters that fail the continuation predicate are
\* InvalidCharacters; else ".." in a Tag is InvalidCharacters(".."); else the
\* normalized text is accepted.
C18_FirstFailure ==
    eval.name = "validate" =>
        \A T \in Validated :
            LET n == nfkc(eval.args[1])
                r == eval.ret[T]
            IN  IF ByteLen(n) > 128 THEN r = NameErr("TooLong", <<>>)
                ELSE IF Len(n) = 0 THEN r = NameErr("Empty", <<>>)
                ELSE IF ~is_valid_start(T, n[1])
                THEN r = NameErr("InvalidStart", <<n[1]>>)
                ELSE IF \E i \in 1..Len(n) : ~is_valid_char(T, n[i])
                THEN ~r.ok /\ r.err = "InvalidCharacters" /\ r.chars # <<>>
                ELSE IF T = "Tag" /\ \E i \in 1..(Len(n) - 1) : n[i] = "." /\ n[i + 1] = "."
                THEN r = NameErr("InvalidCharacters", <<".", ".">>)
                ELSE r.ok /\ r.text = n

\* A text that is too long, starts with a digit and is refused as TooLong
\* has been validated.
C18_Witness ==
    /\ eval.name = "validate"
    /\ ByteLen(nfkc(eval.args[1])) > 128
    /\ ~is_xid_start(nfkc(eval.args[1])[1])
    /\ eval.ret["Label"].err = "TooLong"

(***************************************************************************)
(* C19                                                                     *)
(***************************************************************************)
\* The positions of the characters of n that fail the continuation predicate
\* of T, and the k-th of them.
Offending(T, n) == {i \in 1..Len(n) : ~is_valid_char(T, n[i])}

NthOffending(T, n, k) ==
    CHOOSE i \in Offending(T, n) :
        Cardinality({j \in Offending(T, n) : j <= i}) = k

C20_Hierarchy ==
    eval.name = "validate" =>
        /\ {"Identifier", "Label"} \subseteq Validated /\ eval.ret["Identifier"].ok
           => eval.ret["Label"].ok /\ eval.ret["Label"].text = eval.ret["Identifier"].text
        /\ {"Label", "Tag"} \subseteq Validated /\ eval.ret["Label"].ok
           => eval.ret["Tag"].ok /\ eval.ret["Tag"].text = eval.ret["Label"].text

\* A text with '-' has been accepted as a Label and as a Tag with one
\* normalized text, and refused as an Identifier.
C20_Witness ==
    /\ eval.name = "validate"
    /\ Validated = NameTypes
    /\ \E i \in 1..Len(eval.args[1]) : eval.args[1][i] = "-"
    /\ ~eval.ret["Identifier"].ok
    /\ eval.ret["Label"].ok
    /\ eval.ret["Tag"].ok
    /\ eval.ret["Tag"].text = eval.ret["Label"].text

\* The inclusions are strict: a text with '.' or ':' has been accepted as a
\* Tag and refused as a Label.
C20_StrictWitness ==
    /\ eval.name = "validate"
    /\ Validated = NameTypes
    /\ \E i \in 1..Len(eval.args[1]) : eval.args[1][i] \in {".", ":"}
    /\ eval.ret["Tag"].ok
    /\ ~eval.ret["Label"].ok

(***************************************************************************)
(* C22                                                                     *)
(***************************************************************************)
\* The text of s before its rightmost "::" and the text after it (the whole
\* of s when it holds none).
UriSourceText(s) == Slice(s, 0, Max(DoubleColons(s)))

UriAtomRef(s) ==
    IF DoubleColons(s) = {} THEN s ELSE SliceFrom(s, Max(DoubleColons(s)) + 2)

\* The offsets of '@' in s.
Ats(s) == {i \in 0..(Len(s) - 1) : s[i + 1] = "@"}

\* C22: a parsed atom reference has for source exactly the text before the
\* rightmost "::" (none when there is no "::"), whatever "::" and '@' that
\* text holds; its version is the text after the rightmost '@' of the rest
\* (none when the rest holds no '@'), and its label the normal form of what
\* stands before.
C22_RightmostSplit ==
    eval.pc = "return" /\ eval.name = "uri_from_str" /\ eval.ret.ok =>
        LET s == eval.args[1]
            rest == UriAtomRef(s)
            u == eval.ret.uri
        IN  /\ IF DoubleColons(s) = {} THEN ~u.source.some
               ELSE u.source.some /\ u.source.v = UriSourceText(s)
            /\ IF Ats(rest) = {}
               THEN ~u.version.some /\ u.label = nfkc(rest)
               ELSE /\ u.version.some
                    /\ u.version.v = SliceFrom(rest, Max(Ats(rest)) + 1)
                    /\ u.label = nfkc(Slice(rest, 0, Max(Ats(rest))))

\* A reference whose source holds "::" and '@' has been parsed with a
\* version.
C22_Witness ==
    /\ eval.pc = "return" /\ eval.name = "uri_from_str" /\ eval.ret.ok
    /\ eval.ret.uri.source.some
    /\ DoubleColons(eval.ret.uri.source.v) # {}
    /\ Ats(eval.ret.uri.source.v) # {}
    /\ eval.ret.uri.version.some

\* A reference whose source holds '@' has been parsed without a version.
C22_NoVersionWitness ==
    /\ eval.pc = "return" /\ eval.name = "uri_from_str" /\ eval.ret.ok
    /\ eval.ret.uri.source.some
    /\ Ats(eval.ret.uri.source.v) # {}
    /\ ~eval.ret.uri.version.some

(***************************************************************************)
(* C23                                                                     *)
(***************************************************************************)
\* The label text of s: what stands in the rest after the source split
\* before its rightmost '@' (the whole rest when it holds none).
UriLabelText(s) ==
    IF Ats(UriAtomRef(s)) = {} THEN UriAtomRef(s)
    ELSE Slice(UriAtomRef(s), 0, Max(Ats(UriAtomRef(s))))

\* The rest of s after the source split holds '@' and nothing after its
\* rightmost '@'.
UriVersionEmpty(s) ==
    /\ Ats(UriAtomRef(s)) # {}
    /\ Max(Ats(UriAtomRef(s))) = Len(UriAtomRef(s)) - 1

\* C23: parsing an atom reference fails with EmptyVersion when the rest
\* after the source split holds '@' with nothing after the rightmost one;
\* otherwise with MissingLabel when the label text is empty; otherwise with
\* InvalidLabel of the name error when the label text is no Label; otherwise
\* it succeeds, with a validated label and no empty version.
C23_UriErrorPrecedence ==
    eval.pc = "return" /\ eval.name = "uri_from_str" =>
        LET s == eval.args[1]
            r == eval.ret
        IN  IF UriVersionEmpty(s) THEN ~r.ok /\ r.err = "EmptyVersion"
            ELSE IF UriLabelText(s) = <<>> THEN ~r.ok /\ r.err = "MissingLabel"
            ELSE IF ~validate("Label", UriLabelText(s)).ok
            THEN /\ ~r.ok
                 /\ r.err = "InvalidLabel"
                 /\ r.name = validate("Label", UriLabelText(s))
            ELSE /\ r.ok
                 /\ r.uri.label = validate("Label", UriLabelText(s)).text
                 /\ validate("Label", r.uri.label).ok
                 /\ r.uri.version.some => r.uri.version.v # <<>>

\* A reference with an empty label text and an empty version has been
\* refused as EmptyVersion.
C23_Witness ==
    /\ eval.pc = "return" /\ eval.name = "uri_from_str"
    /\ UriVersionEmpty(eval.args[1])
    /\ UriLabelText(eval.args[1]) = <<>>
    /\ eval.ret.err = "EmptyVersion"

\* An empty label text before a version has been refused as MissingLabel,
\* and a label text that starts with a digit as InvalidLabel.
C23_MissingLabelWitness ==
    /\ eval.pc = "return" /\ eval.name = "uri_from_str"
    /\ Ats(UriAtomRef(eval.args[1])) # {}
    /\ DoubleColons(eval.args[1]) # {}
    /\ eval.ret.err = "MissingLabel"

C23_InvalidLabelWitness ==
    /\ eval.pc = "return" /\ eval.name = "uri_from_str"
    /\ eval.ret.err = "InvalidLabel"
    /\ eval.ret.name.err = "InvalidStart"

(***************************************************************************)
(* C24                                                                     *)
(***************************************************************************)
\* C24: the display of the RawAtomUri parsed from a text whose label text is
\* in normal form is that text; and parsing the display of a RawAtomUri
\* gives a RawAtomUri equal to it.
C24_RenderRoundTrip ==
    /\ eval.pc = "return" /\ eval.name = "uri_to_string"
       /\ nfkc(UriLabelText(eval.args[1])) = UriLabelText(eval.args[1])
       => eval.ret = eval.args[1]
    /\ eval.pc = "return" /\ eval.name = "uri_reparse"
       => /\ eval.ret.ok
          /\ eval.ret.uri = eval.args[2]
          /\ eval.ret.uri.source = eval.args[2].source
          /\ eval.ret.uri.label = eval.args[2].label
          /\ eval.ret.uri.version = eval.args[2].version

\* A reference with a source that holds '@', a label and a version has been
\* parsed, displayed as it was written, and parsed again.
C24_Witness ==
    /\ eval.pc = "return" /\ eval.name = "uri_reparse"
    /\ eval.ret.ok
    /\ eval.args[2].source.some
    /\ Ats(eval.args[2].source.v) # {}
    /\ eval.args[2].version.some
    /\ RawAtomUri_to_string(eval.ret.uri) = eval.args[1]

\* The display of a reference whose label text was not in normal form
\* differs from it, and parses to the same RawAtomUri.
C24_NormalizedWitness ==
    /\ eval.pc = "return" /\ eval.name = "uri_reparse"
    /\ eval.ret.ok
    /\ RawAtomUri_to_string(eval.ret.uri) # eval.args[1]
    /\ eval.ret.uri = eval.args[2]

(***************************************************************************)
(* C25                                                                     *)
(***************************************************************************)
\* C25: RawAtomUri::resolve keeps the label and the version; an absent
\* source stays absent and the resolution succeeds on every map; a present
\* source becomes what AliasMap::resolve gives for it, Raw or Expanded; and
\* an error of AliasMap::resolve is returned as AliasError, with no AtomUri.
C25_ResolveChangesSource ==
    eval.pc = "return" /\ eval.name = "uri_resolve" =>
        LET u == eval.args[1]
            r == eval.ret
        IN  /\ r.ok => r.uri.label = u.label /\ r.uri.version = u.version
            /\ ~u.source.some => r.ok /\ ~r.uri.source.some
            /\ u.source.some =>
                 IF Resolve(u.source.v, aliases).kind \in {"Raw", "Expanded"}
                 THEN /\ r.ok
                      /\ r.uri.source.some
                      /\ r.uri.source.v = Resolve(u.source.v, aliases)
                 ELSE /\ ~r.ok
                      /\ r.err = "AliasError"
                      /\ r.alias = Resolve(u.source.v, aliases)
                      /\ r.alias.kind \in {"AliasNotFound", "InvalidAliasName", "CycleDetected"}
                      /\ r.uri = AtomUri(NoSource, <<>>, OptNone)

\* A reference with an aliased source and a version has been resolved: the
\* source is expanded through two aliases, the label and the version kept.
C25_Witness ==
    /\ eval.pc = "return" /\ eval.name = "uri_resolve"
    /\ eval.ret.ok
    /\ eval.args[1].version.some
    /\ eval.ret.uri.version = eval.args[1].version
    /\ eval.ret.uri.label = eval.args[1].label
    /\ eval.ret.uri.source.some
    /\ eval.ret.uri.source.v.kind = "Expanded"
    /\ eval.ret.uri.source.v.url # eval.args[1].source.v
    /\ DOMAIN aliases = {<<"a">>, <<"b">>}

\* A reference without a source has been resolved on a map that is a cycle,
\* and one with a source has failed with the error of the map.
C25_NoSourceWitness ==
    /\ eval.pc = "return" /\ eval.name = "uri_resolve"
    /\ ~eval.args[1].source.some
    /\ eval.ret.ok
    /\ aliases # <<>>

C25_AliasErrorWitness ==
    /\ eval.pc = "return" /\ eval.name = "uri_resolve"
    /\ ~eval.ret.ok
    /\ eval.ret.alias.kind = "CycleDetected"

(***************************************************************************)
(* C21                                                                     *)
(***************************************************************************)
\* C21: a name that an entry point has built holds a text that is not
\* empty, of at most 128 bytes, in NFKC normal form, that starts with a start
\* character of its type, holds only continuation characters of its type
\* and, in a Tag, no ".."; validating the text again succeeds and gives the
\* same name.
C21_SealedNames ==
    /\ eval.pc \in {"held", "revalidated"} /\ eval.ret.some =>
          /\ eval.ret.text # <<>>
          /\ ByteLen(eval.ret.text) <= 128
          /\ nfkc(eval.ret.text) = eval.ret.text
          /\ is_xid_start(eval.ret.text[1])
          /\ \A i \in 1..Len(eval.ret.text) :
                \/ is_xid_continue(eval.ret.text[i])
                \/ eval.ret.type \in {"Label", "Tag"} /\ eval.ret.text[i] = "-"
                \/ eval.ret.type = "Tag" /\ eval.ret.text[i] \in {".", ":"}
          /\ eval.ret.type = "Tag" =>
                \A i \in 1..(Len(eval.ret.text) - 1) :
                    ~(eval.ret.text[i] = "." /\ eval.ret.text[i + 1] = ".")
    /\ eval.pc = "revalidated" =>
          /\ eval.re.ok
          /\ eval.re.type = eval.ret.type
          /\ eval.re.text = eval.ret.text

\* A Label deserialized with a payload from a text that was not in normal
\* form has been validated again.
C21_Witness ==
    /\ eval.pc = "revalidated"
    /\ eval.name = "claim"
    /\ nfkc(eval.args[1]) # eval.args[1]
    /\ eval.re.ok
    /\ eval.re.text = eval.ret.text

\* A text of more than 128 bytes has given a name of the cap's length, by
\* the parsing of an atom reference.
C21_CapWitness ==
    /\ eval.pc = "revalidated"
    /\ eval.name = "atom_uri"
    /\ ByteLen(eval.args[1]) > 128
    /\ ByteLen(eval.ret.text) = 128

(***************************************************************************)
(* C26                                                                     *)
(***************************************************************************)
\* C26: the digest of an AtomId is that of the canonical input with the
\* members anchor (the unpadded base64url of the anchor) and label, in this
\* order, by the hash of the algorithm; two digests of one AtomId with one
\* algorithm are equal, and those with ES256 and with ES384 differ.
C26_DigestDeterministicAgile ==
    /\ eval.pc = "return" /\ eval.name \in {"compute", "compute_again"} =>
          /\ eval.ret.first.some
          /\ eval.ret.first.alg = eval.args[2]
          /\ Len(eval.ret.first.cad.msg) = 2
          /\ eval.ret.first.cad.msg[1] = <<"anchor", JsonStr(B64Encode(eval.args[1].anchor))>>
          /\ eval.ret.first.cad.msg[2] = <<"label", JsonStr(eval.args[1].label)>>
    /\ eval.pc = "return" /\ eval.name = "compute_again" =>
          /\ eval.args[3] = eval.args[2] => eval.ret.second = eval.ret.first
          /\ {eval.args[2], eval.args[3]} = {"ES256", "ES384"} =>
                /\ eval.ret.second # eval.ret.first
                /\ eval.ret.second.cad # eval.ret.first.cad

\* The digests of one AtomId with ES256 and with ES384 have been computed.
C26_Witness ==
    /\ eval.pc = "return" /\ eval.name = "compute_again"
    /\ eval.args[2] = "ES256"
    /\ eval.args[3] = "ES384"
    /\ eval.ret.first.some /\ eval.ret.second.some
    /\ eval.ret.first.cad.msg = eval.ret.second.cad.msg
    /\ eval.ret.first.cad # eval.ret.second.cad

\* Two digests of one AtomId with one algorithm have been computed.
C26_SameAlgWitness ==
    /\ eval.pc = "return" /\ eval.name = "compute_again"
    /\ eval.args[2] = eval.args[3]
    /\ eval.args[1].anchor # <<>>
    /\ eval.ret.first.some
    /\ eval.ret.second = eval.ret.first

(***************************************************************************)
(* C27                                                                     *)
(***************************************************************************)
\* C27: when the name after the '+' at the host position of the string a
\* step classifies is a valid alias name that is no key of the map (and, in
\* resolve_recursive, not a name of the chain), the call returns
\* AliasNotFound of that very name, at the first level and at every depth,
\* with no url, alias or chain; and AliasNotFound is returned in no other
\* case.
C27_Step ==
    /\ (/\ call.pc # "done"
        /\ PlusAtHost(Classified)
        /\ validate_alias_name(NameAt(Classified))
        /\ NameAt(Classified) \notin DOMAIN aliases
        /\ NameAt(Classified) \notin Range(call.chain)
        => /\ call'.pc = "done"
           /\ call'.result.kind = "AliasNotFound"
           /\ call'.result.name = NameAt(Classified)
           /\ call'.result.url = <<>>
           /\ call'.result.alias = <<>>
           /\ call'.result.chain = <<>>)
    /\ (call.pc # "done" /\ call'.result.kind = "AliasNotFound"
        => /\ call'.result.name = NameAt(Classified)
           /\ call'.result.name \notin DOMAIN aliases
           /\ \A i \in 1..(Len(call'.chain) - 1) : call'.chain[i] \in DOMAIN aliases)

C27_MissingAliasNamed == [][C27_Step]_vars

\* After the expansion of one alias a second one was missing, and the error
\* names the second.
C27_Witness ==
    /\ call.pc = "done"
    /\ call.result.kind = "AliasNotFound"
    /\ call.steps > 0
    /\ call.input = <<"+", "a">>
    /\ aliases = (<<"a">> :> <<"+", "b">>)
    /\ call.original_alias = <<"a">>
    /\ call.result = AliasNotFound(<<"b">>)

(***************************************************************************)
(* C28                                                                     *)
(***************************************************************************)
\* C28: a claim built from an AtomId has typ "atom/claim", a publish typ
\* "atom/publish"; each holds the anchor and the label of the AtomId, so
\* that AtomId::new of them is the AtomId; and a claim and a publish built
\* from one AtomId hold one identity, whatever their algorithm, owner,
\* timestamp and version.
C28_PayloadIdentity ==
    eval.name = "payloads" =>
        /\ "claim" \in eval.ret.built =>
              /\ eval.ret.claim.typ = AtomClaimText
              /\ eval.ret.claim.anchor = eval.args[1].anchor
              /\ eval.ret.claim.label = eval.args[1].label
              /\ AtomId_new(eval.ret.claim.anchor, eval.ret.claim.label) = eval.args[1]
        /\ "publish" \in eval.ret.built =>
              /\ eval.ret.publish.typ = AtomPublishText
              /\ eval.ret.publish.anchor = eval.args[1].anchor
              /\ eval.ret.publish.label = eval.args[1].label
              /\ AtomId_new(eval.ret.publish.anchor, eval.ret.publish.label) = eval.args[1]
        /\ eval.ret.built = {"claim", "publish"} =>
              AtomId_new(eval.ret.claim.anchor, eval.ret.claim.label)
                  = AtomId_new(eval.ret.publish.anchor, eval.ret.publish.label)

\* A claim and a publish of different algorithms and timestamps have been
\* built from one AtomId with an anchor of two bytes.
C28_Witness ==
    /\ eval.name = "payloads"
    /\ eval.ret.built = {"claim", "publish"}
    /\ eval.ret.claim.alg # eval.ret.publish.alg
    /\ eval.ret.claim.now # eval.ret.publish.now
    /\ eval.ret.claim.owner = <<>>
    /\ eval.args[1] = AtomId_new(<<255, 1>>, <<"a", "-", "1">>)
    /\ eval.ret.publish.anchor = <<255, 1>>
    /\ eval.ret.claim.label = <<"a", "-", "1">>

(***************************************************************************)
(* C29                                                                     *)
(***************************************************************************)
\* TRUE iff the text holds "://".
HasSchemeSeparator(s) ==
    \E i \in 1..(Len(s) - 2) : SubSeq(s, i, i + 2) = <<":", "/", "/">>

\* C29: when neither the input nor any value of the map holds "://", the
\* url of an Expanded result holds no "://".
C29_NoSchemeInjection ==
    /\ call.pc = "done"
    /\ call.result.kind = "Expanded"
    /\ ~HasSchemeSeparator(call.input)
    /\ \A name \in DOMAIN aliases : ~HasSchemeSeparator(aliases[name])
    => ~HasSchemeSeparator(call.result.url)

(***************************************************************************)
(* C30                                                                     *)
(***************************************************************************)
\* C30: whenever resolve_recursive is entered the chain is not empty, starts
\* with the outermost alias, holds pairwise distinct names, one for each
\* expansion made, and each of them is a key of the map; a chain reported by
\* CycleDetected starts with the outermost alias, is pairwise distinct up
\* to its last name, ends with a name it holds earlier, and is no longer
\* than the number of keys plus one.
C30_ChainInvariant ==
    /\ call.pc = "resolve_recursive" =>
          /\ call.chain # <<>>
          /\ call.chain[1] = call.original_alias
          /\ \A i, j \in 1..Len(call.chain) : call.chain[i] = call.chain[j] => i = j
          /\ \A i \in 1..Len(call.chain) : call.chain[i] \in DOMAIN aliases
          /\ Len(call.chain) = call.steps
          /\ Len(call.chain) <= Cardinality(DOMAIN aliases)
    /\ call.pc = "done" /\ call.result.kind = "CycleDetected" =>
          /\ Len(call.result.chain) >= 2
          /\ call.result.chain[1] = call.original_alias
          /\ \A i, j \in 1..(Len(call.result.chain) - 1) :
                call.result.chain[i] = call.result.chain[j] => i = j
          /\ \E i \in 1..(Len(call.result.chain) - 1) :
                call.result.chain[i] = call.result.chain[Len(call.result.chain)]
          /\ \A i \in 1..Len(call.result.chain) : call.result.chain[i] \in DOMAIN aliases
          /\ Len(call.result.chain) <= Cardinality(DOMAIN aliases) + 1

\* A cycle was detected at a name that is not the outermost alias: the
\* chain of three names ends with its second.
C30_Witness ==
    /\ call.pc = "done"
    /\ call.result.kind = "CycleDetected"
    /\ Len(call.result.chain) = 3
    /\ call.result.chain[3] = call.result.chain[2]
    /\ call.result.chain[3] # call.result.chain[1]
    /\ call.result.chain[1] = call.original_alias

\* resolve_recursive is entered for the second time, with a chain of two.
C30_DepthWitness ==
    /\ call.pc = "resolve_recursive"
    /\ Len(call.chain) = 2
    /\ call.chain[1] # call.chain[2]
    /\ call.steps = 2

=============================================================================
